---- MODULE Spec2Model ----
(***************************************************************************)
(* A model of the game state machine of gym-locm (src/gym_locm/engine.py): *)
(* the draft and battle phases of State, the Player and Creature rules,    *)
(* the legal-action enumeration and the action mask.                       *)
(*                                                                         *)
(* Python's None is modelled by the integer None (-1); a tuple of two      *)
(* (players, lanes) is a function over 0..1; a list is a sequence.  A card *)
(* is a record of the fields of a Card object; the three fields a Creature *)
(* adds are carried by every card and read only on creatures.              *)
(***************************************************************************)
EXTENDS Integers, Sequences, FiniteSets, TLC

VARIABLES
    phase,                    \* State.phase
    turn,                     \* State.turn
    current,                  \* State._current_player
    winner,                   \* State.winner
    was_last_action_invalid,  \* State.was_last_action_invalid
    items,                    \* State.items
    instance_counter,         \* State.instance_counter
    draft_cards,              \* State._draft_cards
    players,                  \* State.players
    last_action,              \* the last act call: see Call
    before,                   \* the State as the last act call found it: see Self
    plays,                    \* accepted battle acts other than Pass so far
    rejects,                  \* rejected battle acts so far
    draft_acts,               \* act calls made while the phase was Draft
    other_picks               \* draft picks of another slot than the first

vars == <<phase, turn, current, winner, was_last_action_invalid, items,
          instance_counter, draft_cards, players, last_action, before,
          plays, rejects, draft_acts, other_picks>>

----------------------------------------------------------------------------
(* Enumerations *)

None == -1

DRAFT == "DRAFT"
BATTLE == "BATTLE"
ENDED == "ENDED"

FIRST == 0
SECOND == 1

LEFT == 0
RIGHT == 1

Lanes == {LEFT, RIGHT}

A_PICK == "PICK"
A_SUMMON == "SUMMON"
A_ATTACK == "ATTACK"
A_USE == "USE"
A_PASS == "PASS"

Creature == "creature"
GreenItem == "itemGreen"
RedItem == "itemRed"
BlueItem == "itemBlue"

DraftTurns == 30
DeckSize == 30
MaxHand == 8
MaxLane == 3
MaxBaseMana == 12
TurnLimit == 50
InitialHealth == 30
InitialRune == 25
RuneStep == 5
MaskLength == 145
MaskLengthNoItems == 41

(* Bounds of the exploration *)
MaxPlays == 4
MaxPlayTurn == 2
MaxRejects == 1
MaxStrayPlays == 2
MaxHit == 30
MaxOtherPicks == 1
MaxTurn == 60
LateFrom == 50
MaxLatePlays == 2
PlayFrom == 5
PlayUntil == 26
DeckOutTail == 4

----------------------------------------------------------------------------
(* The card catalog.  The engine reads 160 entries from a data file; the   *)
(* model draws its cards from the entries below, which cover every card    *)
(* type and every keyword.                                                 *)

\* Card.__init__ and Creature.__init__.
Card(id, type, cost, attack, defense, keywords, player_hp, enemy_hp, card_draw) ==
    [id |-> id, instance_id |-> None, type |-> type, cost |-> cost,
     attack |-> attack, defense |-> defense, keywords |-> keywords,
     player_hp |-> player_hp, enemy_hp |-> enemy_hp, card_draw |-> card_draw,
     is_dead |-> FALSE, can_attack |-> FALSE, has_attacked_this_turn |-> FALSE]

Catalog ==
    << Card( 1, Creature,  1,  2,  2, {},              1,  0, 0),
       Card( 2, Creature,  1,  1,  2, {"G"},           0, -5, 0),
       Card( 3, Creature,  1,  1,  1, {"C", "W"},      0,  0, 0),
       Card( 4, Creature,  1,  1,  1, {"L"},           0,  0, 1),
       Card( 5, Creature,  1,  3,  1, {"B", "C"},      0,  0, 0),
       Card( 6, Creature,  2,  2,  3, {"B", "D", "W"}, 0,  0, 0),
       Card( 7, Creature,  0,  0,  1, {},              0,  0, 0),
       Card( 8, Creature, 12, 12, 12, {"B", "G"},      0,  0, 0),
       Card( 9, GreenItem, 1,  1,  1, {"W"},           0,  0, 0),
       Card(10, RedItem,   0,  0, -1, {"G"},           0,  0, 0),
       Card(11, BlueItem,  2,  0, -2, {},              0,  0, 1),
       Card(12, GreenItem, 0,  0, -1, {"C"},           0, -2, 0) >>

Opposing(p) == (p + 1) % 2

----------------------------------------------------------------------------
(* Sequences *)

RemoveAt(seq, i) ==
    [j \in 1..(Len(seq) - 1) |-> IF j < i THEN seq[j] ELSE seq[j + 1]]

Reversed(seq) == [j \in 1..Len(seq) |-> seq[Len(seq) + 1 - j]]

\* The positions of seq holding a card equal to the card of instance id iid
\* (Card.__eq__: both instance ids set and the same).
Positions(seq, iid) ==
    {j \in 1..Len(seq) : iid # None /\ seq[j].instance_id = iid}

\* The smallest element of a set of positions, 0 for the empty set.
First(positions) ==
    IF positions = {} THEN 0
    ELSE CHOOSE j \in positions : \A k \in positions : j <= k

\* The first position of seq holding a card equal to the card of instance id
\* iid, 0 when there is none: what list.remove and the in operator look for.
IndexOf(seq, iid) == First(Positions(seq, iid))

----------------------------------------------------------------------------
(* Player *)

NewPlayer ==
    [health |-> InitialHealth, base_mana |-> 0, bonus_mana |-> 0, mana |-> 0,
     next_rune |-> InitialRune, bonus_draw |-> 0, last_drawn |-> 0,
     deck |-> <<>>, hand |-> <<>>, lanes |-> [l \in Lanes |-> <<>>],
     actions |-> <<>>]

\* Player.draw without the check of the hand's size.
RECURSIVE PlayerDraw_pastfull(_, _)
PlayerDraw_pastfull(p, amount) ==
    IF amount <= 0 THEN [player |-> p, raised |-> "none"]
    ELSE IF Len(p.deck) = 0 THEN [player |-> p, raised |-> "EmptyDeckError"]
    ELSE PlayerDraw_pastfull([p EXCEPT !.hand = Append(@, p.deck[Len(p.deck)]),
                                       !.deck = SubSeq(@, 1, Len(@) - 1)],
                             amount - 1)

\* Player.draw: the player after the draws made, and the exception raised.
RECURSIVE PlayerDraw(_, _)
PlayerDraw(p, amount) ==
    IF amount <= 0 THEN [player |-> p, raised |-> "none"]
    ELSE IF Len(p.deck) = 0 THEN [player |-> p, raised |-> "EmptyDeckError"]
    ELSE IF Len(p.hand) >= MaxHand THEN [player |-> p, raised |-> "FullHandError"]
    ELSE PlayerDraw([p EXCEPT !.hand = Append(@, p.deck[Len(p.deck)]),
                              !.deck = SubSeq(@, 1, Len(@) - 1)],
                    amount - 1)

\* RuneLoop without the test of next_rune > 0.
RECURSIVE RuneLoop_belowzero(_)
RuneLoop_belowzero(p) ==
    IF p.health <= p.next_rune
    THEN RuneLoop_belowzero([p EXCEPT !.next_rune = @ - RuneStep, !.bonus_draw = @ + 1])
    ELSE p

\* RuneLoop without the increment of bonus_draw.
RECURSIVE RuneLoop_nodraw(_)
RuneLoop_nodraw(p) ==
    IF p.health <= p.next_rune /\ p.next_rune > 0
    THEN RuneLoop_nodraw([p EXCEPT !.next_rune = @ - RuneStep])
    ELSE p

\* The while loop of Player.damage.
RECURSIVE RuneLoop(_)
RuneLoop(p) ==
    IF p.health <= p.next_rune /\ p.next_rune > 0
    THEN RuneLoop([p EXCEPT !.next_rune = @ - RuneStep, !.bonus_draw = @ + 1])
    ELSE p

PlayerDamage(p, amount) == RuneLoop([p EXCEPT !.health = @ - amount])

----------------------------------------------------------------------------
(* Cards *)

\* Card.make_copy with an instance id.
make_copy(card, instance_id) == [card EXCEPT !.instance_id = instance_id]

has_ability(c, keyword) == keyword \in c.keywords

\* able_to_attack without the test of has_attacked_this_turn.
able_to_attack_again(c) == c.can_attack \/ has_ability(c, "C")

able_to_attack(c) ==
    ~c.has_attacked_this_turn /\ (c.can_attack \/ has_ability(c, "C"))

\* Creature.damage without the call of remove_ability.
CreatureDamage_wardkept(c, amount, lethal) ==
    IF amount <= 0 THEN [creature |-> c, dealt |-> 0, ward |-> FALSE]
    ELSE IF has_ability(c, "W")
    THEN [creature |-> c, dealt |-> 0, ward |-> TRUE]
    ELSE [creature |-> [c EXCEPT !.defense = @ - amount,
                                 !.is_dead = (lethal \/ c.defense - amount <= 0
                                              \/ @)],
          dealt |-> amount, ward |-> FALSE]

\* Creature.damage: the creature afterwards, the amount returned, and whether
\* WardShieldError was raised.
CreatureDamage(c, amount, lethal) ==
    IF amount <= 0 THEN [creature |-> c, dealt |-> 0, ward |-> FALSE]
    ELSE IF has_ability(c, "W")
    THEN [creature |-> [c EXCEPT !.keywords = @ \ {"W"}], dealt |-> 0,
          ward |-> TRUE]
    ELSE [creature |-> [c EXCEPT !.defense = @ - amount,
                                 !.is_dead = (lethal \/ c.defense - amount <= 0
                                              \/ @)],
          dealt |-> amount, ward |-> FALSE]

has_enough_mana(available_mana, card) == card.cost <= available_mana

----------------------------------------------------------------------------
(* State: the fields of a State object that act reads and writes, and the  *)
(* exception the last _act_on_battle caught ("none" when it caught none).  *)

Self ==
    [phase |-> phase, turn |-> turn, current |-> current, winner |-> winner,
     was_last_action_invalid |-> was_last_action_invalid,
     instance_counter |-> instance_counter, players |-> players,
     raised |-> "none"]

Action(type, origin, target) ==
    [type |-> type, origin |-> origin, target |-> target]

\* What an origin or a target of None stands for once resolved.
NoCard == [type |-> "none", instance_id |-> None]

\* A lookup that raised InvalidCardError.
Missing == [type |-> "missing", instance_id |-> None]

\* The lists _find_card searches, in the order it searches them.
Locations(s) ==
    s.players[s.current].hand \o s.players[Opposing(s.current)].hand
    \o s.players[s.current].lanes[LEFT] \o s.players[s.current].lanes[RIGHT]
    \o s.players[Opposing(s.current)].lanes[LEFT]
    \o s.players[Opposing(s.current)].lanes[RIGHT]

Lookup(cards, at) == IF at = 0 THEN Missing ELSE cards[at]

\* _find_card: the first card with the instance id.  Instance ids are unique
\* among the cards in play, so the card found is the one list.remove and the
\* in operator find by Card.__eq__.
find_card(s, instance_id) ==
    Lookup(Locations(s), IndexOf(Locations(s), instance_id))

Raise(s, error) == [state |-> s, raised |-> error]

Done(s) == [state |-> s, raised |-> "none"]

\* lane with the creature of card's instance id replaced by card.
Replace(lane, card) ==
    [lane EXCEPT ![IndexOf(lane, card.instance_id)] = card]

----------------------------------------------------------------------------
(* Battle actions *)

\* Summoned with a creature that can attack at once.
Summoned_awake(s, origin, target, c, o) ==
    [s EXCEPT
        !.players[c].hand = RemoveAt(@, IndexOf(@, origin.instance_id)),
        !.players[c].lanes[target] = Append(@, [origin EXCEPT !.can_attack = TRUE]),
        !.players[c].bonus_draw = @ + origin.card_draw,
        !.players[c].health = @ + origin.player_hp,
        !.players[o].health = @ + origin.enemy_hp,
        !.players[c].mana = @ - origin.cost]

\* The statements of _do_summon after its checks.
Summoned(s, origin, target, c, o) ==
    [s EXCEPT
        !.players[c].hand = RemoveAt(@, IndexOf(@, origin.instance_id)),
        !.players[c].lanes[target] = Append(@, [origin EXCEPT !.can_attack = FALSE]),
        !.players[c].bonus_draw = @ + origin.card_draw,
        !.players[c].health = @ + origin.player_hp,
        !.players[o].health = @ + origin.enemy_hp,
        !.players[c].mana = @ - origin.cost]

\* do_summon without the NotEnoughManaError check.
do_summon_nomana(s, origin, target) ==
    IF origin.type # Creature THEN Raise(s, "MalformedActionError")
    ELSE IF target \notin Lanes THEN Raise(s, "MalformedActionError")
    ELSE IF Len(s.players[s.current].lanes[target]) >= MaxLane
    THEN Raise(s, "FullLaneError")
    ELSE IF IndexOf(s.players[s.current].hand, origin.instance_id) = 0
    THEN Raise(s, "MalformedActionError")
    ELSE Done(Summoned(s, origin, target, s.current, Opposing(s.current)))

\* do_summon without the FullLaneError check.
do_summon_anylane(s, origin, target) ==
    IF origin.cost > s.players[s.current].mana
    THEN Raise(s, "NotEnoughManaError")
    ELSE IF origin.type # Creature THEN Raise(s, "MalformedActionError")
    ELSE IF target \notin Lanes THEN Raise(s, "MalformedActionError")
    ELSE IF IndexOf(s.players[s.current].hand, origin.instance_id) = 0
    THEN Raise(s, "MalformedActionError")
    ELSE Done(Summoned(s, origin, target, s.current, Opposing(s.current)))

do_summon(s, origin, target) ==
    IF origin.cost > s.players[s.current].mana
    THEN Raise(s, "NotEnoughManaError")
    ELSE IF origin.type # Creature THEN Raise(s, "MalformedActionError")
    ELSE IF target \notin Lanes THEN Raise(s, "MalformedActionError")
    ELSE IF Len(s.players[s.current].lanes[target]) >= MaxLane
    THEN Raise(s, "FullLaneError")
    ELSE IF IndexOf(s.players[s.current].hand, origin.instance_id) = 0
    THEN Raise(s, "MalformedActionError")
    ELSE Done(Summoned(s, origin, target, s.current, Opposing(s.current)))

\* The lane of player p that holds a card equal to card, None when neither
\* lane does.
LaneOf(s, p, card) ==
    IF IndexOf(s.players[p].lanes[LEFT], card.instance_id) > 0 THEN LEFT
    ELSE IF IndexOf(s.players[p].lanes[RIGHT], card.instance_id) > 0 THEN RIGHT
    ELSE None

\* The positions of the creatures of a lane that have Guard.
GuardPositions(lane) == {j \in 1..Len(lane) : has_ability(lane[j], "G")}

\* IsValidTarget without the guard_creatures branch.
IsValidTarget_noguard(lane, target) ==
    target = NoCard \/ IndexOf(lane, target.instance_id) > 0

\* target in valid_targets, for the opposing lane an attack goes into.
IsValidTarget(lane, target) ==
    IF GuardPositions(lane) # {}
    THEN \E j \in GuardPositions(lane) :
            /\ target.instance_id # None
            /\ lane[j].instance_id = target.instance_id
    ELSE target = NoCard \/ IndexOf(lane, target.instance_id) > 0

\* damage_dealt and the two creatures after both calls of Creature.damage.
Outcome(hit, back) ==
    [origin |-> back.creature, target |-> hit.creature,
     damage_dealt |-> IF hit.ward \/ back.ward THEN 0 ELSE hit.dealt]

\* Counter in which a defender that died of the hit does not hit back.
Counter_survivor(origin, hit) ==
    Outcome(hit, CreatureDamage(origin,
                                IF hit.creature.is_dead THEN 0
                                ELSE hit.creature.attack,
                                has_ability(hit.creature, "L")))

Counter(origin, hit) ==
    Outcome(hit, CreatureDamage(origin, hit.creature.attack,
                                has_ability(hit.creature, "L")))

Exchange(origin, target) ==
    Counter(origin, CreatureDamage(target, origin.attack,
                                   has_ability(origin, "L")))

\* An attack on the opposing player.
AttackPlayer(s, origin, l, c, o) ==
    [s EXCEPT
        !.players[o] = PlayerDamage(@, origin.attack),
        !.players[c].health =
            IF "D" \in origin.keywords THEN @ + origin.attack ELSE @,
        !.players[c].lanes[l] =
            Replace(@, [origin EXCEPT !.has_attacked_this_turn = TRUE])]

\* An attack on a creature: x is the exchange, excess is excess_damage.
AttackCreature(s, x, excess, l, c, o) ==
    [s EXCEPT
        !.players[o].lanes[l] = Replace(@, x.target),
        !.players[o] =
            IF "B" \in x.origin.keywords /\ excess > 0
            THEN PlayerDamage(@, excess) ELSE @,
        !.players[c].health =
            IF "D" \in x.origin.keywords THEN @ + x.damage_dealt ELSE @,
        !.players[c].lanes[l] =
            Replace(@, [x.origin EXCEPT !.has_attacked_this_turn = TRUE])]

\* AttackFrom without the able_to_attack check.
AttackFrom_anytime(s, origin, target, l, x) ==
    IF ~IsValidTarget(s.players[Opposing(s.current)].lanes[l], target)
    THEN Raise(s, "MalformedActionError")
    ELSE IF target = NoCard
    THEN Done(AttackPlayer(s, origin, l, s.current, Opposing(s.current)))
    ELSE Done(AttackCreature(s, x, x.damage_dealt - target.defense, l,
                             s.current, Opposing(s.current)))

\* The statements of _do_attack once origin_lane is known.
AttackFrom(s, origin, target, l, x) ==
    IF ~IsValidTarget(s.players[Opposing(s.current)].lanes[l], target)
    THEN Raise(s, "MalformedActionError")
    ELSE IF ~able_to_attack(origin) THEN Raise(s, "MalformedActionError")
    ELSE IF target = NoCard
    THEN Done(AttackPlayer(s, origin, l, s.current, Opposing(s.current)))
    ELSE Done(AttackCreature(s, x, x.damage_dealt - target.defense, l,
                             s.current, Opposing(s.current)))

do_attack(s, origin, target) ==
    IF origin.type # Creature THEN Raise(s, "MalformedActionError")
    ELSE IF LaneOf(s, s.current, origin) = None
    THEN Raise(s, "MalformedActionError")
    ELSE AttackFrom(s, origin, target, LaneOf(s, s.current, origin),
                    Exchange(origin, target))

\* The end of the three item branches of _do_use.
OnPlay(s, origin, c, o) ==
    [s EXCEPT
        !.players[c].bonus_draw = @ + origin.card_draw,
        !.players[c].health = @ + origin.player_hp,
        !.players[o].health = @ + origin.enemy_hp,
        !.players[c].mana = @ - origin.cost]

Dying(creature) == [creature EXCEPT !.is_dead = (@ \/ creature.defense <= 0)]

\* What a green item does to the creature it targets.
GreenEffect(target, origin) ==
    Dying([target EXCEPT !.attack = @ + origin.attack,
                         !.defense = @ + origin.defense,
                         !.keywords = @ \cup origin.keywords])

\* What a red or a blue item does to the creature it targets.
RedEffect(target, origin) ==
    Dying(CreatureDamage([target EXCEPT !.attack = @ + origin.attack,
                                        !.keywords = @ \ origin.keywords],
                         -origin.defense, FALSE).creature)

\* s with a creature of lane l of player p replaced by what it became.
Affect(s, p, l, creature) ==
    [s EXCEPT !.players[p].lanes[l] = Replace(@, creature)]

\* The branches of _do_use on the type of the item; s is the state after
\* hand.remove(origin), own and opp the lanes that hold the target.
UseItem(s, origin, target, own, opp, c, o) ==
    IF origin.type = GreenItem
    THEN IF target = NoCard \/ own = None
         THEN Raise(s, "MalformedActionError")
         ELSE Done(OnPlay(Affect(s, c, own, GreenEffect(target, origin)),
                          origin, c, o))
    ELSE IF origin.type = RedItem
    THEN IF target = NoCard \/ opp = None
         THEN Raise(s, "MalformedActionError")
         ELSE Done(OnPlay(Affect(s, o, opp, RedEffect(target, origin)),
                          origin, c, o))
    ELSE IF origin.type = BlueItem
    THEN IF target # NoCard /\ opp = None
         THEN Raise(s, "MalformedActionError")
         ELSE IF target # NoCard
         THEN Done(OnPlay(Affect(s, o, opp, RedEffect(target, origin)),
                          origin, c, o))
         ELSE Done(OnPlay([s EXCEPT !.players[o] =
                                PlayerDamage(@, -origin.defense)],
                          origin, c, o))
    ELSE Raise(s, "MalformedActionError")

\* The state after current_player.hand.remove(origin).
Discard(s, origin) ==
    [s EXCEPT !.players[s.current].hand =
        RemoveAt(@, IndexOf(@, origin.instance_id))]

\* do_use without the NotEnoughManaError check.
do_use_nomana(s, origin, target) ==
    IF target # NoCard /\ target.type # Creature
    THEN Raise(s, "MalformedActionError")
    ELSE IF IndexOf(s.players[s.current].hand, origin.instance_id) = 0
    THEN Raise(s, "MalformedActionError")
    ELSE UseItem(Discard(s, origin), origin, target,
                 LaneOf(s, s.current, target),
                 LaneOf(s, Opposing(s.current), target),
                 s.current, Opposing(s.current))

do_use(s, origin, target) ==
    IF origin.cost > s.players[s.current].mana
    THEN Raise(s, "NotEnoughManaError")
    ELSE IF target # NoCard /\ target.type # Creature
    THEN Raise(s, "MalformedActionError")
    ELSE IF IndexOf(s.players[s.current].hand, origin.instance_id) = 0
    THEN Raise(s, "MalformedActionError")
    ELSE UseItem(Discard(s, origin), origin, target,
                 LaneOf(s, s.current, target),
                 LaneOf(s, Opposing(s.current), target),
                 s.current, Opposing(s.current))

----------------------------------------------------------------------------
(* act *)

\* The loop that removes the dead creatures of a lane: Python's for over a
\* list it removes from, so the position after a removed one is stepped over.
RECURSIVE Sweep(_, _)
Sweep(lane, i) ==
    IF i > Len(lane) THEN lane
    ELSE IF lane[i].is_dead
    THEN Sweep(RemoveAt(lane, IndexOf(lane, lane[i].instance_id)), i + 1)
    ELSE Sweep(lane, i + 1)

\* SweepAll with the lanes of the second player left as they are.
SweepAll_first(s) ==
    [s EXCEPT !.players[FIRST].lanes = [l \in Lanes |-> Sweep(@[l], 1)]]

SweepAll(s) ==
    [s EXCEPT !.players =
        [p \in {FIRST, SECOND} |->
            [@[p] EXCEPT !.lanes = [l \in Lanes |-> Sweep(@[l], 1)]]]]

\* HealthCheck with the wrong member of Phase in its first branch.
HealthCheck_draft(s) ==
    IF s.players[FIRST].health <= 0
    THEN [s EXCEPT !.phase = DRAFT, !.winner = SECOND]
    ELSE IF s.players[SECOND].health <= 0
    THEN [s EXCEPT !.phase = ENDED, !.winner = FIRST]
    ELSE s

\* HealthCheck without the assignment of the winner in its first branch.
HealthCheck_nowinner(s) ==
    IF s.players[FIRST].health <= 0
    THEN [s EXCEPT !.phase = ENDED]
    ELSE IF s.players[SECOND].health <= 0
    THEN [s EXCEPT !.phase = ENDED, !.winner = FIRST]
    ELSE s

HealthCheck(s) ==
    IF s.players[FIRST].health <= 0
    THEN [s EXCEPT !.phase = ENDED, !.winner = SECOND]
    ELSE IF s.players[SECOND].health <= 0
    THEN [s EXCEPT !.phase = ENDED, !.winner = FIRST]
    ELSE s

\* The card an origin or a target of an action resolves to.
Find(s, instance_id) ==
    IF instance_id # None THEN find_card(s, instance_id) ELSE NoCard

\* The branches of the try block of _act_on_battle on the action's type.
Dispatch(s, action, origin, target) ==
    IF origin = Missing THEN Raise(s, "InvalidCardError")
    ELSE IF action.type = A_SUMMON THEN do_summon(s, origin, action.target)
    ELSE IF action.type = A_ATTACK
    THEN IF target = Missing THEN Raise(s, "InvalidCardError")
         ELSE do_attack(s, origin, target)
    ELSE IF action.type = A_USE
    THEN IF target = Missing THEN Raise(s, "InvalidCardError")
         ELSE do_use(s, origin, target)
    ELSE IF action.type = A_PASS THEN Done(s)
    ELSE Raise(s, "MalformedActionError")

\* The try block of _act_on_battle: the state it leaves and what it raised.
Resolve(s, action) ==
    Dispatch(s, action, Find(s, action.origin), Find(s, action.target))

\* The action as the log keeps it: resolved_origin is the id of the card the
\* origin resolved to, the one field of it that is read later (by __str__).
Resolved(action, origin) ==
    [type |-> action.type, origin |-> action.origin, target |-> action.target,
     resolved_origin |-> IF origin = NoCard THEN None ELSE origin.id]

\* The end of the try block, or the except clause.
Logged(r, action, origin) ==
    IF r.raised = "none"
    THEN [r.state EXCEPT !.players[r.state.current].actions =
                            Append(@, Resolved(action, origin))]
    ELSE [r.state EXCEPT !.was_last_action_invalid = TRUE, !.raised = r.raised]

act_on_battle(s, action) ==
    HealthCheck(SweepAll(Logged(Resolve(s, action), action,
                                Find(s, action.origin))))

\* next_turn with the turn counted for each player: the pick of First also
\* adds 1 to the turn.
next_turn_solo(s) ==
    IF s.current = FIRST THEN [s EXCEPT !.current = SECOND, !.turn = @ + 1]
    ELSE IF s.turn + 1 > DraftTurns /\ s.phase = DRAFT
    THEN [s EXCEPT !.current = FIRST, !.phase = BATTLE, !.turn = 1]
    ELSE [s EXCEPT !.current = FIRST, !.turn = @ + 1]

next_turn(s) ==
    IF s.current = FIRST THEN [s EXCEPT !.current = SECOND]
    ELSE IF s.turn + 1 > DraftTurns /\ s.phase = DRAFT
    THEN [s EXCEPT !.current = FIRST, !.phase = BATTLE, !.turn = 1]
    ELSE [s EXCEPT !.current = FIRST, !.turn = @ + 1]

\* The reveal of a draft turn is the hand of both players.
new_draft_turn(s) ==
    [s EXCEPT !.players =
        [p \in {FIRST, SECOND} |-> [@[p] EXCEPT !.hand = draft_cards[s.turn]]]]

Wake(lane) ==
    [j \in 1..Len(lane) |->
        [lane[j] EXCEPT !.can_attack = TRUE, !.has_attacked_this_turn = FALSE]]

\* Refill without the reset of bonus_mana.
Refill_keepbonus(p) ==
    [p EXCEPT
        !.base_mana = IF @ < MaxBaseMana THEN @ + 1 ELSE @,
        !.mana = (IF p.base_mana < MaxBaseMana THEN p.base_mana + 1
                  ELSE p.base_mana) + p.bonus_mana]

\* The mana statements of _new_battle_turn.
Refill(p) ==
    [p EXCEPT
        !.bonus_mana = IF p.base_mana > 0 /\ p.mana = 0 THEN 0 ELSE @,
        !.base_mana = IF @ < MaxBaseMana THEN @ + 1 ELSE @,
        !.mana = (IF p.base_mana < MaxBaseMana THEN p.base_mana + 1
                  ELSE p.base_mana)
                 + (IF p.base_mana > 0 /\ p.mana = 0 THEN 0 ELSE p.bonus_mana)]

\* Burn with the player's whole health as the damage.
Burn_whole(drawn) ==
    IF drawn.raised = "EmptyDeckError"
    THEN PlayerDamage(drawn.player, drawn.player.health)
    ELSE drawn.player

\* What the except clauses of the draw do with the exception raised.
Burn(drawn) ==
    IF drawn.raised = "EmptyDeckError"
    THEN PlayerDamage(drawn.player, drawn.player.health - drawn.player.next_rune)
    ELSE drawn.player

\* DrawForTurn without the emptying of the deck after turn TurnLimit.
DrawForTurn_nocap(p, t) == Burn(PlayerDraw(p, 1 + p.bonus_draw))

DrawForTurn(p, t) ==
    Burn(PlayerDraw([p EXCEPT !.deck = IF t > TurnLimit THEN <<>> ELSE @],
                    1 + p.bonus_draw))

Drawn(p, amount_in_hand) ==
    [p EXCEPT !.bonus_draw = 0, !.last_drawn = Len(p.hand) - amount_in_hand]

\* _new_battle_turn on the player whose turn starts.
StartTurn(p, t) ==
    Drawn(DrawForTurn(Refill([p EXCEPT !.lanes = [l \in Lanes |-> Wake(@[l])]]), t),
          Len(p.hand))

new_battle_turn(s) ==
    [s EXCEPT !.players[s.current] = StartTurn(@, s.turn)]

\* Instantiate with one counter for each deck: the two decks take the same ids.
Instantiate_sameids(s, shuffled) ==
    [s EXCEPT
        !.instance_counter = @ + 2 * Len(shuffled[FIRST]),
        !.players = [p \in {FIRST, SECOND} |->
            [@[p] EXCEPT
                !.hand = <<>>,
                !.lanes = [l \in Lanes |-> <<>>],
                !.deck = Reversed(
                    [j \in 1..Len(shuffled[p]) |->
                        make_copy(shuffled[p][j], s.instance_counter + j)])]]]

\* The decks after _prepare_for_battle gave every card its instance id: the
\* cards of the two shuffled decks take the ids alternately, and each deck is
\* stored reversed.  shuffled is the pair of the decks as np_random.shuffle
\* left them.
Instantiate(s, shuffled) ==
    [s EXCEPT
        !.instance_counter = @ + 2 * Len(shuffled[FIRST]),
        !.players = [p \in {FIRST, SECOND} |->
            [@[p] EXCEPT
                !.hand = <<>>,
                !.lanes = [l \in Lanes |-> <<>>],
                !.deck = Reversed(
                    [j \in 1..Len(shuffled[p]) |->
                        make_copy(shuffled[p][j],
                                  s.instance_counter + 2 * (j - 1) + 1 + p)])]]]

\* Deal without the extra card and the bonus mana of the second player.
Deal_even(s) ==
    [s EXCEPT
        !.players[FIRST] = [PlayerDraw(@, 4).player EXCEPT !.base_mana = 0],
        !.players[SECOND] = [PlayerDraw(@, 4).player EXCEPT !.base_mana = 0]]

\* The draws that end _prepare_for_battle.
Deal(s) ==
    [s EXCEPT
        !.players[FIRST] = [PlayerDraw(@, 4).player EXCEPT !.base_mana = 0],
        !.players[SECOND] = [PlayerDraw(@, 4).player EXCEPT !.base_mana = 0],
        !.players[SECOND] = [PlayerDraw(@, 1).player EXCEPT !.bonus_mana = 1]]

prepare_for_battle(s, shuffled) == Deal(Instantiate(s, shuffled))

\* act_on_draft that takes the first card of the reveal whatever the origin.
act_on_draft_first(s, action) ==
    [s EXCEPT !.players[s.current].deck =
        Append(@, s.players[s.current].hand[1])]

act_on_draft(s, action) ==
    [s EXCEPT !.players[s.current].deck =
        Append(@, s.players[s.current].hand[
                    (IF action.origin # None THEN action.origin ELSE 0) + 1])]

\* The decks as the two calls of np_random.shuffle leave them: rng[p] is the
\* permutation the generator applies to the deck of player p.
Shuffled(s, rng) ==
    [p \in {FIRST, SECOND} |->
        [j \in 1..Len(s.players[p].deck) |-> s.players[p].deck[rng[p][j]]]]

\* The draft branch of act after _act_on_draft and _next_turn.
AfterPick(s, rng) ==
    IF s.phase = DRAFT THEN new_draft_turn(s)
    ELSE new_battle_turn(prepare_for_battle(s, Shuffled(s, rng)))

\* AfterBattle that ends the turn after every action.
AfterBattle_always(s, action) == new_battle_turn(next_turn(s))

\* The battle branch of act after _act_on_battle.
AfterBattle(s, action) ==
    IF action.type = A_PASS THEN new_battle_turn(next_turn(s)) ELSE s

Reset(s) == [s EXCEPT !.was_last_action_invalid = FALSE, !.raised = "none"]

\* act with the battle branch taken by every phase but Draft.
act_endedplays(s, action, rng) ==
    IF s.phase = DRAFT
    THEN AfterPick(next_turn(act_on_draft(Reset(s), action)), rng)
    ELSE AfterBattle(act_on_battle(Reset(s), action), action)

\* State.act.  rng stands for what the random generator decides during the
\* call: the two permutations that shuffle the decks when the draft ends.
act(s, action, rng) ==
    IF s.phase = DRAFT
    THEN AfterPick(next_turn(act_on_draft(Reset(s), action)), rng)
    ELSE IF s.phase = BATTLE
    THEN AfterBattle(act_on_battle(Reset(s), action), action)
    ELSE Reset(s)

----------------------------------------------------------------------------
(* The random generator: the draft schedule and the deck shuffles *)

\* A reveal of three different catalog cards, the first of them x; n is the
\* number of catalog cards the draft draws from.
Reveal(x, n) == <<Catalog[x], Catalog[(x % n) + 1], Catalog[((x + 1) % n) + 1]>>

\* The first cards of the reveals of a draft with items, and of one without.
FirstSlots(with_items) ==
    IF with_items
    THEN <<2, 4, 8, 8, 10, 8>> \o [j \in 1..18 |-> 8] \o <<11, 8, 8, 9, 6, 3>>
    ELSE <<1, 8, 8, 8, 8, 8>> \o [j \in 1..18 |-> 8] \o <<8, 8, 8, 8, 7, 5>>

\* _new_draft: the reveals of the thirty draft turns.
new_draft(with_items) ==
    [k \in 1..DraftTurns |->
        Reveal(FirstSlots(with_items)[k], IF with_items THEN 12 ELSE 8)]

Identity == [j \in 1..DeckSize |-> j]

Reversal == [j \in 1..DeckSize |-> DeckSize + 1 - j]

\* The outcomes of the two calls of np_random.shuffle the model follows: the
\* permutations of the first and of the second player's deck.
Shuffles ==
    {[p \in {FIRST, SECOND} |-> IF p = FIRST THEN Identity ELSE Reversal],
     [p \in {FIRST, SECOND} |-> IF p = FIRST THEN Reversal ELSE Identity]}

NoRng == [p \in {FIRST, SECOND} |-> Identity]

----------------------------------------------------------------------------
(* available_actions and action_mask *)

Pass == Action(A_PASS, None, None)

Ids(seq) == {seq[j].instance_id : j \in 1..Len(seq)}

\* The cards of the hand that pass the has_enough_mana filter.
Playable(c) ==
    {c.hand[j] : j \in {k \in 1..Len(c.hand) : has_enough_mana(c.mana, c.hand[k])}}

SummonActions(c) ==
    {Action(A_SUMMON, card.instance_id, l) :
        card \in {k \in Playable(c) : k.type = Creature},
        l \in {k \in Lanes : Len(c.lanes[k]) < MaxLane}}

\* The Use actions, for the instance ids of the friendly and of the enemy
\* creatures.
UseActions(c, friendly, enemy) ==
    {Action(A_USE, card.instance_id, t) :
        card \in {k \in Playable(c) : k.type = GreenItem}, t \in friendly}
    \cup {Action(A_USE, card.instance_id, t) :
        card \in {k \in Playable(c) : k.type = RedItem}, t \in enemy}
    \cup {Action(A_USE, card.instance_id, t) :
        card \in {k \in Playable(c) : k.type = BlueItem}, t \in enemy \cup {None}}

\* valid_targets for the attacks into an opposing lane, as instance ids.
ValidTargets(lane) ==
    IF GuardPositions(lane) # {}
    THEN {lane[j].instance_id : j \in GuardPositions(lane)}
    ELSE Ids(lane) \cup {None}

AttackActions(c, o) ==
    UNION {{Action(A_ATTACK, creature.instance_id, t) :
                creature \in {c.lanes[l][j] :
                    j \in {k \in 1..Len(c.lanes[l]) : able_to_attack(c.lanes[l][k])}},
                t \in ValidTargets(o.lanes[l])} : l \in Lanes}

OrPass(actions) == IF actions = {} THEN {Pass} ELSE actions

\* The battle branch of available_actions for the current player c and the
\* opposing player o.
BattleList(c, o) ==
    OrPass(SummonActions(c) \cup AttackActions(c, o)
           \cup UseActions(c, Ids(c.lanes[LEFT]) \cup Ids(c.lanes[RIGHT]),
                           Ids(o.lanes[LEFT]) \cup Ids(o.lanes[RIGHT])))

\* The tuple State.available_actions builds, as the set of its elements.
available_actions(s) ==
    IF s.phase = DRAFT THEN {Action(A_PICK, i, None) : i \in 0..2}
    ELSE IF s.phase = ENDED THEN {}
    ELSE BattleList(s.players[s.current], s.players[Opposing(s.current)])

\* The positions of the hand cards of a type that the player can pay for.
Payable(c, types) ==
    {i \in 1..Len(c.hand) :
        has_enough_mana(c.mana, c.hand[i]) /\ c.hand[i].type \in types}

\* The entries validate_creature sets.
SummonBits(c) ==
    {1 + (i - 1) * 2 + l :
        i \in Payable(c, {Creature}),
        l \in {k \in Lanes : Len(c.lanes[k]) < MaxLane}}

\* The entries validate_green_item sets.
GreenBits(c) ==
    UNION {{17 + (i - 1) * 13 + 1 + 3 * l + k : k \in 0..(Len(c.lanes[l]) - 1)} :
            i \in Payable(c, {GreenItem}), l \in Lanes}

\* The entries validate_red_item sets, for red and for blue items.
RedBits(c, o) ==
    UNION {{17 + (i - 1) * 13 + 7 + 3 * l + k : k \in 0..(Len(o.lanes[l]) - 1)} :
            i \in Payable(c, {RedItem, BlueItem}), l \in Lanes}

BlueBits(c) == {17 + (i - 1) * 13 : i \in Payable(c, {BlueItem})}

\* The entries the loop over the board sets for the creature at position i of
\* lane l, given the opposing lane.
TargetBits(i, l, lane) ==
    IF GuardPositions(lane) # {}
    THEN {121 + (i - 1 + 3 * l) * 4 + 1 + (j - 1) : j \in GuardPositions(lane)}
    ELSE {121 + (i - 1 + 3 * l) * 4}
         \cup {121 + (i - 1 + 3 * l) * 4 + 1 + (j - 1) : j \in 1..Len(lane)}

AttackBits(c, o) ==
    UNION {UNION {TargetBits(i, l, o.lanes[l]) :
                    i \in {k \in 1..Len(c.lanes[l]) :
                            able_to_attack(c.lanes[l][k])}} : l \in Lanes}

\* The entries of the 145 the battle branch of action_mask sets to 1.
MaskOnes(c, o) ==
    {0} \cup SummonBits(c) \cup GreenBits(c) \cup RedBits(c, o) \cup BlueBits(c)
    \cup AttackBits(c, o)

\* A mask of the given length whose entries in ones are 1: entry n of the
\* Python list is element n + 1.
Bits(ones, length) == [n \in 1..length |-> IF (n - 1) \in ones THEN 1 ELSE 0]

\* action_mask[:17] + action_mask[-24:]
Slice(mask) == SubSeq(mask, 1, 17) \o SubSeq(mask, Len(mask) - 23, Len(mask))

\* action_mask without the slice that drops the item entries.
action_mask_unsliced(s) ==
    IF s.phase = DRAFT THEN <<1, 1, 1>>
    ELSE IF s.phase = ENDED
    THEN Bits({}, IF items THEN MaskLength ELSE MaskLengthNoItems)
    ELSE Bits(MaskOnes(s.players[s.current], s.players[Opposing(s.current)]),
              MaskLength)

\* action_mask with an empty list for a game that has ended.
action_mask_empty(s) ==
    IF s.phase = DRAFT THEN <<1, 1, 1>>
    ELSE IF s.phase = ENDED THEN <<>>
    ELSE IF items
    THEN Bits(MaskOnes(s.players[s.current], s.players[Opposing(s.current)]),
              MaskLength)
    ELSE Slice(Bits(MaskOnes(s.players[s.current],
                             s.players[Opposing(s.current)]), MaskLength))

\* State.action_mask.
action_mask(s) ==
    IF s.phase = DRAFT THEN <<1, 1, 1>>
    ELSE IF s.phase = ENDED
    THEN Bits({}, IF items THEN MaskLength ELSE MaskLengthNoItems)
    ELSE IF items
    THEN Bits(MaskOnes(s.players[s.current], s.players[Opposing(s.current)]),
              MaskLength)
    ELSE Slice(Bits(MaskOnes(s.players[s.current],
                             s.players[Opposing(s.current)]), MaskLength))

----------------------------------------------------------------------------
(* The actions a caller may pass to act *)

DraftActions == {Action(A_PICK, i, None) : i \in {None, 0, 1, 2}}

\* The instance ids of the cards of a hand, one for each different card.
Kinds(hand) ==
    {hand[j].instance_id :
        j \in {k \in 1..Len(hand) : \A m \in 1..(k - 1) : hand[m].id # hand[k].id}}

\* The instance ids an action of the model may name: the cards the current
\* player sees, one card of the opponent's hand, and one card still in the
\* current player's deck.
NamedIds(c, o) ==
    Kinds(c.hand) \cup Ids(c.lanes[LEFT]) \cup Ids(c.lanes[RIGHT])
    \cup Ids(o.lanes[LEFT]) \cup Ids(o.lanes[RIGHT])
    \cup Ids(SubSeq(o.hand, 1, 1)) \cup Ids(SubSeq(c.deck, 1, 1))

\* Summon and Use name a card as their origin (act reads origin.cost before
\* anything else); a Summon names a lane or nothing as its target.
ActionsOver(ids) ==
    {Action(A_SUMMON, i, l) : i \in ids, l \in Lanes \cup {None}}
    \cup {Action(A_ATTACK, i, t) : i \in ids \cup {None}, t \in ids \cup {None}}
    \cup {Action(A_USE, i, t) : i \in ids, t \in ids \cup {None}}
    \cup {Action(A_PICK, None, None)}

BattleActions(s) ==
    ActionsOver(NamedIds(s.players[s.current], s.players[Opposing(s.current)]))

----------------------------------------------------------------------------
(* The state machine *)

\* What the model keeps of an act call: the action's type, what the call
\* raised and caught, whether available_actions listed the action, and the
\* origin and target of an action that resolved.
Call(action, raised, listed) ==
    [type |-> action.type, raised |-> raised, listed |-> listed,
     origin |-> IF raised = "none" THEN action.origin ELSE None,
     target |-> IF raised = "none" THEN action.target ELSE None]

Init ==
    /\ items \in BOOLEAN
    /\ draft_cards = new_draft(items)
    /\ phase = DRAFT
    /\ turn = 1
    /\ current = FIRST
    /\ winner = None
    /\ was_last_action_invalid = FALSE
    /\ instance_counter = 0
    /\ players = [p \in {FIRST, SECOND} |->
                    [NewPlayer EXCEPT !.hand = draft_cards[1]]]
    /\ last_action = Call(Action("none", None, None), "none", FALSE)
    /\ before = Self
    /\ plays = 0
    /\ rejects = 0
    /\ draft_acts = 0
    /\ other_picks = 0

\* The variables after self.act(action) left the state s.
Becomes(s, action) ==
    /\ phase' = s.phase
    /\ turn' = s.turn
    /\ current' = s.current
    /\ winner' = s.winner
    /\ was_last_action_invalid' = s.was_last_action_invalid
    /\ instance_counter' = s.instance_counter
    /\ players' = s.players
    /\ before' = Self
    /\ last_action' = Call(action, s.raised, action \in available_actions(Self))
    /\ plays' = IF phase = BATTLE /\ s.raised = "none" /\ action.type # A_PASS
                THEN plays + 1 ELSE plays
    /\ rejects' = IF s.raised = "none" THEN rejects ELSE rejects + 1
    /\ draft_acts' = IF phase = DRAFT THEN draft_acts + 1 ELSE draft_acts
    /\ other_picks' = IF phase = DRAFT /\ action.origin \notin {None, 0}
                      THEN other_picks + 1 ELSE other_picks
    /\ UNCHANGED <<items, draft_cards>>

\* self.act(action), with rng what the random generator decides.
Acts(action, rng) == \E s \in {act(Self, action, rng)} : Becomes(s, action)

\* A draft pick; the pick that ends the draft also shuffles the decks.
Draft ==
    /\ phase = DRAFT
    /\ \E action \in DraftActions, rng \in Shuffles :
        /\ action.origin \in {None, 0}
        /\ Acts(action, rng)

\* A draft pick of the second or third card of the reveal.  A game with such
\* a pick is followed to its first Battle state.
DraftOther ==
    /\ phase = DRAFT
    /\ other_picks < MaxOtherPicks
    /\ \E action \in DraftActions, rng \in Shuffles :
        /\ action.origin \in {1, 2}
        /\ Acts(action, rng)

\* The current player passes.  A game in which a card was played is followed
\* for MaxPlayTurn turns; the game of passes alone is followed to its end.
PassTurn ==
    /\ phase = BATTLE
    /\ other_picks = 0
    /\ rejects < MaxRejects
    /\ turn <= MaxTurn
    /\ turn <= MaxPlayTurn \/ plays = 0
    /\ Acts(Pass, NoRng)

\* The current player plays one of the actions available_actions lists.
Play ==
    /\ phase = BATTLE
    /\ other_picks = 0
    /\ rejects < MaxRejects
    /\ turn <= MaxPlayTurn
    /\ plays < MaxPlays
    /\ \E action \in available_actions(Self) \ {Pass} : Acts(action, NoRng)

\* The caller passes an action that available_actions does not list, in a
\* game in which at most MaxStrayPlays cards were played.
Stray ==
    /\ phase = BATTLE
    /\ other_picks = 0
    /\ rejects < MaxRejects
    /\ turn <= MaxPlayTurn
    /\ plays <= MaxStrayPlays
    /\ \E action \in BattleActions(Self) \ available_actions(Self) :
        Acts(action, NoRng)

\* act on a game that has ended.
Over ==
    /\ phase = ENDED
    /\ \E action \in {Pass, Action(A_SUMMON, 1, LEFT)} : Acts(action, NoRng)

Next == Draft \/ DraftOther \/ PassTurn \/ Play \/ Stray \/ Over

Spec == Init /\ [][Next]_vars

----------------------------------------------------------------------------
(* The game in which both players pass every turn of the battle: once the  *)
(* battle has begun the player to move keeps passing                       *)

PassNext == Draft \/ PassTurn \/ Over

PassSpec == Init /\ [][PassNext]_vars /\ WF_vars(PassTurn)

----------------------------------------------------------------------------
(* A game of cheap creatures: every reveal of the draft starts with the    *)
(* creature of cost 0, so that a player can fill a lane in one turn        *)

CheapDraft == [k \in 1..DraftTurns |-> Reveal(7, 8)]

\* The state after State(items=False) drew the draft of cheap creatures.
CapsInit ==
    /\ items = FALSE
    /\ draft_cards = CheapDraft
    /\ phase = DRAFT
    /\ turn = 1
    /\ current = FIRST
    /\ winner = None
    /\ was_last_action_invalid = FALSE
    /\ instance_counter = 0
    /\ players = [p \in {FIRST, SECOND} |->
                    [NewPlayer EXCEPT !.hand = draft_cards[1]]]
    /\ last_action = Call(Action("none", None, None), "none", FALSE)
    /\ before = Self
    /\ plays = 0
    /\ rejects = 0
    /\ draft_acts = 0
    /\ other_picks = 0

\* The current player summons a creature of the hand into the left lane, an
\* action available_actions lists; MaxLane such summons are followed.
Fill ==
    /\ phase = BATTLE
    /\ rejects < MaxRejects
    /\ plays < MaxLane
    /\ \E action \in {Action(A_SUMMON, i, LEFT) : i \in Kinds(players[current].hand)}
                        \cap available_actions(Self) :
        Acts(action, NoRng)

\* The current player summons a creature of the hand into the left lane
\* while the lane holds MaxLane creatures or more.
Overfill ==
    /\ phase = BATTLE
    /\ rejects < MaxRejects
    /\ Len(players[current].lanes[LEFT]) >= MaxLane
    /\ \E i \in Kinds(players[current].hand) :
        Acts(Action(A_SUMMON, i, LEFT), NoRng)

CapsNext == Draft \/ PassTurn \/ Fill \/ Overfill

CapsSpec == CapsInit /\ [][CapsNext]_vars

----------------------------------------------------------------------------
(* The canonical action ids of the mask, as the specification lays them    *)
(* out (the decoder of the environments is not part of the engine)         *)

Absent == -2

\* The instance id of the card at position k (from 0) of a list of cards,
\* Absent when the list is shorter.
Slot(cards, k) == IF k + 1 <= Len(cards) THEN cards[k + 1].instance_id ELSE Absent

\* The target of sub-slot k of an item's thirteen: no target, then the own
\* left and right lanes, then the enemy's.
ItemTarget(c, o, k) ==
    IF k = 0 THEN None
    ELSE IF k <= 6 THEN Slot(c.lanes[(k - 1) \div 3], (k - 1) % 3)
    ELSE Slot(o.lanes[(k - 7) \div 3], (k - 7) % 3)

\* The canonical action with id n for the current player c and the opposing
\* player o: 0 Pass, 1..16 summon, 17..120 item use, 121..144 attack.
Canonical(c, o, n) ==
    IF n = 0 THEN Pass
    ELSE IF n <= 16
    THEN Action(A_SUMMON, Slot(c.hand, (n - 1) \div 2), (n - 1) % 2)
    ELSE IF n <= 120
    THEN Action(A_USE, Slot(c.hand, (n - 17) \div 13),
                ItemTarget(c, o, (n - 17) % 13))
    ELSE Action(A_ATTACK,
                Slot(c.lanes[((n - 121) \div 4) \div 3], ((n - 121) \div 4) % 3),
                IF (n - 121) % 4 = 0 THEN None
                ELSE Slot(o.lanes[((n - 121) \div 4) \div 3], ((n - 121) % 4) - 1))

\* The canonical id of entry n (from 0) of a mask: without items the mask
\* keeps the first 17 and the last 24 ids.
IdOfEntry(n, with_items) ==
    IF with_items \/ n < 17 THEN n ELSE n + (MaskLength - MaskLengthNoItems)

----------------------------------------------------------------------------
(* clone and __str__ *)

\* An attribute that an object built by empty_copy was never given: reading
\* it raises AttributeError.
Unset == -3

\* Player.clone: every attribute of the player but last_drawn, the cards
\* copied by make_copy with their instance ids.
PlayerClone(p) ==
    [p EXCEPT
        !.last_drawn = Unset,
        !.deck = [j \in 1..Len(@) |-> make_copy(@[j], @[j].instance_id)],
        !.hand = [j \in 1..Len(@) |-> make_copy(@[j], @[j].instance_id)],
        !.lanes = [l \in Lanes |->
            [j \in 1..Len(@[l]) |-> make_copy(@[l][j], @[l][j].instance_id)]]]

\* State.clone: the phase, the turn, the current player, the winner and the
\* clones of the players; was_last_action_invalid, items and instance_counter
\* are not given to the clone.
clone(s) ==
    [phase |-> s.phase, turn |-> s.turn, current |-> s.current,
     winner |-> s.winner, was_last_action_invalid |-> Unset,
     instance_counter |-> Unset, items |-> Unset,
     players |-> [p \in {FIRST, SECOND} |-> PlayerClone(s.players[p])],
     raised |-> "none"]

\* act on a state that may be a clone: the pick that ends the draft reads
\* instance_counter in _next_instance_id.
act_unset(s, action, rng) ==
    IF s.phase = DRAFT /\ next_turn(s).phase = BATTLE /\ s.instance_counter = Unset
    THEN Raise(s, "AttributeError")
    ELSE Done(act(s, action, rng))

\* The first two lines of the text: a player's health, mana, deck size, rune
\* and draw.
PlayerLine(cp, draw) ==
    <<cp.health, cp.base_mana + cp.bonus_mana, Len(cp.deck), cp.next_rune, draw>>

\* The actions of actions[:-1] that follow its last Pass.
RECURSIVE LastActions(_)
LastActions(log) ==
    IF Len(log) = 0 \/ log[Len(log)].type = A_PASS THEN <<>>
    ELSE Append(LastActions(SubSeq(log, 1, Len(log) - 1)), log[Len(log)])

ActionLine(a) == <<a.resolved_origin, a.type, a.origin, a.target>>

CardType(c) ==
    IF c.type = Creature THEN 0 ELSE IF c.type = GreenItem THEN 1
    ELSE IF c.type = RedItem THEN 2 ELSE 3

Abilities(c) ==
    [i \in 1..6 |-> IF <<"B", "C", "D", "G", "L", "W">>[i] \in c.keywords
                    THEN <<"B", "C", "D", "G", "L", "W">>[i] ELSE "-"]

\* The line of a card at the given location (0 hand, 1 own board, -1 the
\* opponent's board) and lane (-1 for the hand).
CardLine(c, location, lane) ==
    <<c.id, c.instance_id, location, CardType(c), c.cost, c.attack, c.defense,
      Abilities(c), c.player_hp, c.enemy_hp, c.card_draw, lane>>

CardLines(cards, location, lane) ==
    [j \in 1..Len(cards) |-> CardLine(cards[j], location, lane)]

\* The lines of State.__str__ for the current player p and the opponent o.
Lines(s, p, o) ==
    [players |-> <<PlayerLine(p, p.last_drawn), PlayerLine(o, 1 + o.bonus_draw)>>,
     op_hand |-> IF s.phase # DRAFT THEN Len(o.hand) ELSE 0,
     actions |-> [j \in 1..Len(LastActions(SubSeq(o.actions, 1, Len(o.actions) - 1)))
                    |-> ActionLine(LastActions(SubSeq(o.actions, 1,
                                                      Len(o.actions) - 1))[j])],
     cards |-> CardLines(p.hand, 0, -1)
               \o CardLines(p.lanes[LEFT], 1, 0) \o CardLines(p.lanes[RIGHT], 1, 1)
               \o CardLines(o.lanes[LEFT], -1, 0) \o CardLines(o.lanes[RIGHT], -1, 1)]

\* State.__str__: the text, or the AttributeError the read of the current
\* player's last_drawn raises.
Str(s) ==
    IF s.players[s.current].last_drawn = Unset
    THEN [raised |-> "AttributeError", text |-> <<>>]
    ELSE [raised |-> "none",
          text |-> Lines(s, s.players[s.current], s.players[Opposing(s.current)])]

\* str of what an act call left: the exception it raised goes on.
StrAfter(r) ==
    IF r.raised # "none" THEN [raised |-> r.raised, text |-> <<>>]
    ELSE Str(r.state)

\* clone_shares for a Player.clone that copies the lists of cards as it
\* copies the list of actions, list(self.hand): new lists of the same cards.
clone_shares_cards == {"draft_cards", "logged", "cards"}

\* The objects a clone and its source both refer to: State.clone hands over
\* _draft_cards, and Player.clone puts the logged Action objects in a new
\* list.  The players, their deck, hand and lane lists and the cards in them
\* (make_copy, with a new set of keywords) are new objects.
clone_shares == {"draft_cards", "logged"}

\* The four lanes of a state, one after the other.
Board(s) ==
    s.players[FIRST].lanes[LEFT] \o s.players[FIRST].lanes[RIGHT]
    \o s.players[SECOND].lanes[LEFT] \o s.players[SECOND].lanes[RIGHT]

\* A card object of one state as an act call on the other state, which
\* refers to the same object, left it: act writes to the cards on the board.
Written(c, board) ==
    IF IndexOf(board, c.instance_id) > 0
    THEN board[IndexOf(board, c.instance_id)] ELSE c

WrittenAll(cards, board) == [j \in 1..Len(cards) |-> Written(cards[j], board)]

\* The state s after an act call made on another state left that state as
\* now, the two sharing the objects named in shares: what the call wrote in
\* place to a shared player, list or card shows in s.  _draft_cards and the
\* logged actions are not written by act.
Through(s, now, shares) ==
    [s EXCEPT !.players = [p \in {FIRST, SECOND} |->
        IF "players" \in shares THEN now.players[p]
        ELSE IF "lists" \in shares
        THEN [@[p] EXCEPT !.deck = now.players[p].deck,
                          !.hand = now.players[p].hand,
                          !.lanes = now.players[p].lanes]
        ELSE IF "cards" \in shares
        THEN [@[p] EXCEPT !.deck = WrittenAll(@, Board(now)),
                          !.hand = WrittenAll(@, Board(now)),
                          !.lanes = [l \in Lanes |-> WrittenAll(@[l], Board(now))]]
        ELSE @[p]]]

----------------------------------------------------------------------------
(* The game in which both players pass until the decks are burnt and play  *)
(* cards in the last turns: from turn LateFrom on, MaxLatePlays actions    *)
(* that available_actions lists are followed                               *)

\* The current player plays a listed action in one of the last turns.
LatePlay ==
    /\ phase = BATTLE
    /\ turn >= LateFrom
    /\ plays < MaxLatePlays
    /\ \E action \in available_actions(Self) \ {Pass} :
        /\ action.origin \in Kinds(players[current].hand) \cup Ids(Board(Self))
        /\ Acts(action, NoRng)

\* The current player passes after a card was played in the last turns.
LatePass ==
    /\ phase = BATTLE
    /\ turn >= LateFrom
    /\ turn <= MaxTurn
    /\ plays > 0
    /\ Acts(Pass, NoRng)

LateNext == Draft \/ PassTurn \/ LatePlay \/ LatePass

LateSpec == Init /\ [][LateNext]_vars

----------------------------------------------------------------------------
(* A game that empties the decks before the turn limit: First drafts the   *)
(* creature of cost 0 and Second the red item of cost 0; from turn         *)
(* PlayFrom to turn PlayUntil each player plays one card in each of its    *)
(* turns, and passes otherwise                                             *)

DeckOutDraft == [k \in 1..DraftTurns |-> <<Catalog[7], Catalog[10], Catalog[8]>>]

\* The state after State(items=True) drew the draft above.
DeckOutInit ==
    /\ items = TRUE
    /\ draft_cards = DeckOutDraft
    /\ phase = DRAFT
    /\ turn = 1
    /\ current = FIRST
    /\ winner = None
    /\ was_last_action_invalid = FALSE
    /\ instance_counter = 0
    /\ players = [p \in {FIRST, SECOND} |->
                    [NewPlayer EXCEPT !.hand = draft_cards[1]]]
    /\ last_action = Call(Action("none", None, None), "none", FALSE)
    /\ before = Self
    /\ plays = 0
    /\ rejects = 0
    /\ draft_acts = 0
    /\ other_picks = 0

\* First picks the first card of the reveal and Second the second one.
DraftOwn ==
    /\ phase = DRAFT
    /\ \E rng \in Shuffles : Acts(Action(A_PICK, current, None), rng)

\* The current player has played a card since its last Pass.
PlayedThisTurn ==
    /\ Len(players[current].actions) > 0
    /\ players[current].actions[Len(players[current].actions)].type # A_PASS

\* The current player plays a card of cost 0 that available_actions lists:
\* a Summon into the left lane, or a Use on a creature of the opponent's
\* left lane.
CheapPlay ==
    /\ phase = BATTLE
    /\ turn >= PlayFrom
    /\ turn <= PlayUntil
    /\ ~PlayedThisTurn
    /\ \E action \in available_actions(Self) \ {Pass} :
        /\ action.origin \in Kinds(players[current].hand)
        /\ action.target \in {LEFT} \cup Ids(players[Opposing(current)].lanes[LEFT])
        /\ Acts(action, NoRng)

\* The current player passes: before turn PlayFrom and after turn PlayUntil
\* at once, in between after its play.
DeckOutPass ==
    /\ phase = BATTLE
    /\ turn <= PlayUntil + DeckOutTail
    /\ turn < PlayFrom \/ turn > PlayUntil \/ PlayedThisTurn
    /\ Acts(Pass, NoRng)

DeckOutNext == DraftOwn \/ CheapPlay \/ DeckOutPass

DeckOutSpec == DeckOutInit /\ [][DeckOutNext]_vars

----------------------------------------------------------------------------
(* Properties *)

\* C1: over any sequence of act calls the phase only moves forward, Draft to
\* Battle to Ended: no act call takes Battle back to Draft, and once the phase
\* is Ended no act call makes it Draft or Battle again.
PhaseOnlyMovesForward ==
    [][/\ phase = DRAFT => phase' \in {DRAFT, BATTLE}
       /\ phase = BATTLE => phase' \in {BATTLE, ENDED}
       /\ phase = ENDED => phase' = ENDED]_vars

\* An act call was made on a game that had ended, and left it ended.
EndedStaysEnded ==
    /\ before.phase = ENDED
    /\ phase = ENDED
    /\ last_action.type = A_SUMMON

\* C2: in every reachable state the winner is set (not None) if and only if
\* the phase is Ended.
WinnerIffEnded == (winner # None) <=> (phase = ENDED)

\* The act call that ended the game set the winner.
GameJustEnded ==
    /\ before.phase = BATTLE
    /\ phase = ENDED
    /\ winner \in {FIRST, SECOND}
    /\ players[Opposing(winner)].health <= 0

\* C3: after every act call made in the Battle phase, a player at health <= 0
\* means the phase is Ended: no state with phase = Battle and a player at
\* health <= 0 is left at rest, the deck-out burn at the start of the next
\* player's turn included.
NoDeadPlayerInBattle ==
    before.phase = BATTLE =>
        ((\E p \in {FIRST, SECOND} : players[p].health <= 0) => phase = ENDED)

\* C4: a failed battle action sets was_last_action_invalid and leaves every
\* other part of the state unchanged: both players (hand, deck, lanes, health,
\* mana, rune threshold, bonus draw, action log), the phase, the turn and the
\* current player; a rejected Use leaves the acting player's hand unchanged.
FailedActionChangesNothing ==
    (/\ before.phase = BATTLE
     /\ last_action.type \in {A_SUMMON, A_ATTACK, A_USE}
     /\ last_action.raised # "none") =>
        /\ was_last_action_invalid
        /\ players = before.players
        /\ phase = before.phase
        /\ turn = before.turn
        /\ current = before.current

\* C5: in every reachable Battle state a Summon, Attack or Use action is
\* accepted by act (was_last_action_invalid stays false) if and only if
\* available_actions lists it.
AcceptedIffListed ==
    (before.phase = BATTLE /\ last_action.type \in {A_SUMMON, A_ATTACK, A_USE}) =>
        (~was_last_action_invalid <=> last_action.listed)

\* act rejected an attack that available_actions did not list, made while the
\* current player had a creature on the board.
UnlistedAttackRejected ==
    /\ before.phase = BATTLE
    /\ last_action.type = A_ATTACK
    /\ ~last_action.listed
    /\ was_last_action_invalid
    /\ \E l \in Lanes : Len(players[current].lanes[l]) > 0

\* C6: in every Battle state entry i of the action mask is 1 if and only if
\* the canonical action with id i (0 Pass, 1..16 summon, 17..120 item use,
\* 121..144 attack) is in available_actions, entry 0 (Pass) included.
MaskAgreesWithList ==
    phase = BATTLE =>
        \A n \in 0..(Len(action_mask(Self)) - 1) :
            (action_mask(Self)[n + 1] = 1) <=>
                (Canonical(players[current], players[Opposing(current)],
                           IdOfEntry(n, items)) \in available_actions(Self))

\* C7: in every Battle state the action mask has length 145 when items are
\* enabled and length 41 when they are disabled.
BattleMaskLength ==
    phase = BATTLE => Len(action_mask(Self)) = IF items THEN 145 ELSE 41

\* A Battle state of a game without items, with a creature on the board that
\* can attack, in which the mask has 41 entries.
ShortMaskInBattle ==
    /\ phase = BATTLE
    /\ ~items
    /\ Len(action_mask(Self)) = 41
    /\ \E l \in Lanes : \E j \in 1..Len(players[current].lanes[l]) :
            able_to_attack(players[current].lanes[l][j])

\* C8, as stated: the action mask has length 3 in every Draft state and
\* length 0 in every Ended state.
MaskLengthOutsideBattle ==
    /\ phase = DRAFT => Len(action_mask(Self)) = 3
    /\ phase = ENDED => Len(action_mask(Self)) = 0

\* C8, amended: the action mask has length 3 in every Draft state; in every
\* Ended state it has the length of a Battle mask (145 with items, 41
\* without) and every entry is 0.
EndedMaskIsAllZero ==
    /\ phase = DRAFT => Len(action_mask(Self)) = 3
    /\ phase = ENDED =>
        /\ Len(action_mask(Self)) = IF items THEN 145 ELSE 41
        /\ \A n \in 1..Len(action_mask(Self)) : action_mask(Self)[n] = 0

\* An Ended state, in which the mask has the 41 entries of a game without
\* items.
EndedMaskHasEntries ==
    /\ phase = ENDED
    /\ ~items
    /\ Len(action_mask(Self)) = 41

\* C9: in every Battle state, for a creature of the current player that can
\* attack, the targets available_actions lists and the targets act accepts
\* are exactly the Guard creatures of the opposing lane when it holds one (no
\* other creature, and not the player), and exactly the creatures of the
\* opposing lane and the player (no target) when it holds none.
GuardEnforced ==
    phase = BATTLE =>
        \A l \in Lanes : \A j \in 1..Len(players[current].lanes[l]) :
            LET origin == players[current].lanes[l][j].instance_id
                lane == players[Opposing(current)].lanes[l]
                guards == {k \in 1..Len(lane) : "G" \in lane[k].keywords}
                expected == IF guards # {}
                            THEN {lane[k].instance_id : k \in guards}
                            ELSE {lane[k].instance_id : k \in 1..Len(lane)}
                                 \cup {None}
                named == NamedIds(players[current], players[Opposing(current)])
                         \cup {None}
            IN  able_to_attack(players[current].lanes[l][j]) =>
                    /\ {t \in named : Action(A_ATTACK, origin, t)
                                        \in available_actions(Self)} = expected
                    /\ {t \in named : Resolve(Self, Action(A_ATTACK, origin, t)).raised
                                        = "none"} = expected

\* act accepted an attack on a Guard creature whose lane also held a creature
\* without Guard.
GuardAttacked ==
    /\ before.phase = BATTLE
    /\ last_action.type = A_ATTACK
    /\ last_action.raised = "none"
    /\ \E l \in Lanes :
        /\ \E k \in 1..Len(before.players[Opposing(before.current)].lanes[l]) :
            /\ before.players[Opposing(before.current)].lanes[l][k].instance_id
                    = last_action.target
            /\ "G" \in before.players[Opposing(before.current)].lanes[l][k].keywords
        /\ \E k \in 1..Len(before.players[Opposing(before.current)].lanes[l]) :
            "G" \notin before.players[Opposing(before.current)].lanes[l][k].keywords

\* C10: a hit of positive damage on a creature with Ward leaves its defense
\* unchanged, does not kill it (even from a Lethal source) and removes Ward;
\* a hit of positive damage on a creature without Ward, one whose Ward an
\* earlier hit removed included, reduces its defense by the damage and kills
\* it when the source has Lethal or the defense reaches <= 0.  Stated of both
\* creatures of every accepted attack on a creature.
WardAbsorbsOneHit ==
    (/\ before.phase = BATTLE
     /\ last_action.type = A_ATTACK
     /\ last_action.raised = "none"
     /\ last_action.target # None) =>
        LET me == before.current
            foe == Opposing(before.current)
            l == CHOOSE k \in Lanes :
                    IndexOf(before.players[before.current].lanes[k],
                            last_action.origin) > 0
            a == before.players[me].lanes[l][
                    IndexOf(before.players[me].lanes[l], last_action.origin)]
            d == before.players[foe].lanes[l][
                    IndexOf(before.players[foe].lanes[l], last_action.target)]
            HitLeaves(c, amount, lethal, lane) ==
                amount > 0 =>
                    IF "W" \in c.keywords
                    THEN \E k \in 1..Len(lane) :
                            /\ lane[k].instance_id = c.instance_id
                            /\ lane[k].defense = c.defense
                            /\ "W" \notin lane[k].keywords
                    ELSE IF lethal \/ c.defense - amount <= 0
                    THEN \A k \in 1..Len(lane) : lane[k].instance_id # c.instance_id
                    ELSE \E k \in 1..Len(lane) :
                            /\ lane[k].instance_id = c.instance_id
                            /\ lane[k].defense = c.defense - amount
        IN  /\ HitLeaves(d, a.attack, "L" \in a.keywords, players[foe].lanes[l])
            /\ HitLeaves(a, d.attack, "L" \in d.keywords, players[me].lanes[l])

\* act accepted an attack of positive damage on a creature whose card has
\* Ward and whose Ward an earlier hit had removed: the second hit.
SecondHitOnWarded ==
    /\ before.phase = BATTLE
    /\ last_action.type = A_ATTACK
    /\ last_action.raised = "none"
    /\ \E l \in Lanes :
        \E k \in 1..Len(before.players[Opposing(before.current)].lanes[l]),
           j \in 1..Len(before.players[before.current].lanes[l]) :
            /\ before.players[Opposing(before.current)].lanes[l][k].instance_id
                    = last_action.target
            /\ before.players[before.current].lanes[l][j].instance_id
                    = last_action.origin
            /\ before.players[before.current].lanes[l][j].attack > 0
            /\ "W" \notin before.players[Opposing(before.current)].lanes[l][k].keywords
            /\ "W" \in Catalog[before.players[Opposing(before.current)].lanes[l][k].id].keywords

\* C11: after every act call in the Battle phase each player's hand holds at
\* most 8 cards and each of the four lanes holds at most 3 creatures.
HandAndLaneCaps ==
    phase # DRAFT =>
        \A p \in {FIRST, SECOND} :
            /\ Len(players[p].hand) <= 8
            /\ \A l \in Lanes : Len(players[p].lanes[l]) <= 3

\* act refused, with FullLaneError, the summon of a creature the player could
\* pay for into a lane of three creatures.
FullLaneRefused ==
    /\ before.phase = BATTLE
    /\ last_action.type = A_SUMMON
    /\ was_last_action_invalid
    /\ \E l \in Lanes : Len(players[current].lanes[l]) = 3
    /\ \E j \in 1..Len(players[current].hand) :
            players[current].hand[j].cost <= players[current].mana

\* C12: each player's mana is >= 0 after every act call, and whenever a
\* player's mana is lower after an act than before it, the act was a Summon
\* or a Use of that player that resolved, and the decrease is the cost of the
\* card played.
ManaSpentOnlyOnCards ==
    \A p \in {FIRST, SECOND} :
        /\ players[p].mana >= 0
        /\ players[p].mana < before.players[p].mana =>
            /\ before.phase = BATTLE
            /\ p = before.current
            /\ last_action.type \in {A_SUMMON, A_USE}
            /\ last_action.raised = "none"
            /\ \E j \in 1..Len(before.players[p].hand) :
                /\ before.players[p].hand[j].instance_id = last_action.origin
                /\ before.players[p].mana - players[p].mana
                        = before.players[p].hand[j].cost

\* act resolved the Use of an item of positive cost, and the player's mana
\* is lower than before.
ItemPaidFor ==
    /\ before.phase = BATTLE
    /\ last_action.type = A_USE
    /\ last_action.raised = "none"
    /\ players[before.current].mana < before.players[before.current].mana

InstanceIdsUnique ==
    phase # DRAFT =>
        LET cards == players[FIRST].deck \o players[FIRST].hand
                     \o players[FIRST].lanes[LEFT] \o players[FIRST].lanes[RIGHT]
                     \o players[SECOND].deck \o players[SECOND].hand
                     \o players[SECOND].lanes[LEFT] \o players[SECOND].lanes[RIGHT]
        IN  /\ Cardinality({cards[j].instance_id : j \in 1..Len(cards)}) = Len(cards)
            /\ \A j \in 1..Len(cards) : cards[j].instance_id >= 1
            /\ before.phase = DRAFT => Len(cards) = 60

\* The first Battle state of a game with items: the 60 cards of the decks and
\* hands carry the instance ids 1 to 60.
BattleSetUp ==
    /\ before.phase = DRAFT
    /\ phase = BATTLE
    /\ items
    /\ instance_counter = 60
    /\ {players[p].deck[j].instance_id :
            p \in {FIRST, SECOND}, j \in 1..Len(players[FIRST].deck)}
        \cup {players[p].hand[j].instance_id :
            p \in {FIRST, SECOND}, j \in 1..Len(players[FIRST].hand)} = 1..60

\* C15: from a new game the phase is Draft for exactly the first 60 act
\* calls, 30 turns of a pick by First and then a pick by Second, and is Battle
\* as the result of the 60th; at that transition each player has drafted 30
\* cards.
DraftLastsSixtyActs ==
    /\ phase = DRAFT =>
        /\ draft_acts < 60
        /\ draft_acts = 2 * (turn - 1) + (IF current = FIRST THEN 0 ELSE 1)
    /\ phase # DRAFT => draft_acts = 60
    /\ (before.phase = DRAFT /\ phase # DRAFT) =>
        /\ phase = BATTLE
        /\ Len(before.players[FIRST].deck) = 30
        /\ Len(before.players[SECOND].deck) = 29
        /\ \A p \in {FIRST, SECOND} :
                Len(players[p].deck) + Len(players[p].hand) = 30

\* The 60th act call, the pick of Second in draft turn 30, has made the phase
\* Battle.
DraftJustEnded ==
    /\ before.phase = DRAFT
    /\ before.turn = 30
    /\ before.current = SECOND
    /\ draft_acts = 60
    /\ phase = BATTLE

\* C16: a draft act appends exactly one card, the card at the chosen slot of
\* the current reveal (slot 0 when the origin is None), as it is in the
\* reveal and without an instance id, to the deck of the player who picks,
\* leaves the other player's deck unchanged and passes the move to the other
\* player; in every Draft state both players' hands are the reveal of the
\* turn, so both picks of a turn choose from the same reveal.  The 60th pick
\* is followed by the battle setup: there the picked card is counted among
\* the 30 cards of the player's deck and hand.
DraftPickGoesToOwnDeck ==
    /\ phase = DRAFT =>
        \A p \in {FIRST, SECOND} :
            /\ players[p].hand = draft_cards[turn]
            /\ \A j \in 1..Len(players[p].deck) :
                    players[p].deck[j].instance_id = None
    /\ (before.phase = DRAFT /\ last_action.type = A_PICK) =>
        LET c == before.current
            picked == before.players[before.current].hand[
                        (IF last_action.origin = None THEN 0
                         ELSE last_action.origin) + 1]
        IN  /\ current = Opposing(c)
            /\ phase = DRAFT =>
                /\ players[c].deck = Append(before.players[c].deck, picked)
                /\ players[Opposing(c)].deck = before.players[Opposing(c)].deck
            /\ phase # DRAFT =>
                /\ Len(players[c].deck) + Len(players[c].hand)
                        = Len(before.players[c].deck) + 1
                /\ Cardinality({j \in 1..Len(players[c].deck) :
                                    players[c].deck[j].id = picked.id})
                    + Cardinality({j \in 1..Len(players[c].hand) :
                                    players[c].hand[j].id = picked.id})
                    = Cardinality({j \in 1..Len(before.players[c].deck) :
                                    before.players[c].deck[j].id = picked.id}) + 1
                /\ Len(players[Opposing(c)].deck) + Len(players[Opposing(c)].hand)
                        = Len(before.players[Opposing(c)].deck)

\* A draft act with origin 2 has put the third card of the reveal, which is
\* not its first card, at the end of the deck of the player who picked.
ThirdCardPicked ==
    /\ before.phase = DRAFT
    /\ last_action.type = A_PICK
    /\ phase = DRAFT
    /\ last_action.origin = 2
    /\ before.players[before.current].hand[3] # before.players[before.current].hand[1]
    /\ players[before.current].deck[Len(players[before.current].deck)]
            = before.players[before.current].hand[3]

\* C17: in the first Battle state, right after the 60th draft act, the
\* current player is First and the turn is 1; Second holds the 5 cards of the
\* battle setup and First the 4 of the setup and the card drawn as the turn
\* started; Second has bonus_mana 1 and First 0; all four lanes are empty.
FirstBattleStateShape ==
    (before.phase = DRAFT /\ phase = BATTLE) =>
        /\ current = FIRST
        /\ turn = 1
        /\ Len(players[SECOND].hand) = 5
        /\ players[SECOND].last_drawn = 0
        /\ Len(players[FIRST].hand) - players[FIRST].last_drawn = 4
        /\ players[FIRST].last_drawn = 1
        /\ players[SECOND].bonus_mana = 1
        /\ players[FIRST].bonus_mana = 0
        /\ \A p \in {FIRST, SECOND} : \A l \in Lanes : players[p].lanes[l] = <<>>

\* The first Battle state of a game without items whose picks were all of
\* the first card: First is to move with 1 mana, Second has 25 cards left in
\* the deck.
BattleBegins ==
    /\ before.phase = DRAFT
    /\ phase = BATTLE
    /\ ~items
    /\ other_picks = 0
    /\ players[FIRST].mana = 1
    /\ Len(players[SECOND].deck) = 25

\* C18: in the Battle phase an act other than a Pass, accepted or rejected,
\* leaves the current player and the turn unchanged; every Pass hands the
\* move to the other player, and the turn grows by 1 exactly when Second
\* passes.
TurnEndsOnlyOnPass ==
    before.phase = BATTLE =>
        /\ last_action.type # A_PASS =>
            /\ current = before.current
            /\ turn = before.turn
        /\ last_action.type = A_PASS =>
            /\ current = Opposing(before.current)
            /\ turn = before.turn + (IF before.current = SECOND THEN 1 ELSE 0)

\* Second has passed after playing a card in the same turn: the move is
\* First's and the turn is one higher.
SecondPassedAfterPlay ==
    /\ before.phase = BATTLE
    /\ last_action.type = A_PASS
    /\ before.current = SECOND
    /\ Len(before.players[SECOND].actions) > 0
    /\ before.players[SECOND].actions[Len(before.players[SECOND].actions)].type
            # A_PASS
    /\ current = FIRST
    /\ turn = before.turn + 1

\* C19: when a turn starts and the draw raises EmptyDeckError, the burn is
\* health minus next_rune, so the player's health afterwards is the next_rune
\* held before the draw: over every Pass whose draw finds the deck empty, and
\* for the burn of every player of a reachable state.  With health 10,
\* next_rune 10 and an empty deck the burn is 0 and health stays 10.
BurnTakesHealthToRune ==
    /\ (/\ before.phase = BATTLE
        /\ last_action.type = A_PASS
        /\ PlayerDraw([before.players[current] EXCEPT
                          !.deck = IF turn > TurnLimit THEN <<>> ELSE @],
                      1 + before.players[current].bonus_draw).raised
                = "EmptyDeckError") =>
            players[current].health = before.players[current].next_rune
    /\ \A p \in {FIRST, SECOND} :
            Burn([player |-> players[p], raised |-> "EmptyDeckError"]).health
                = players[p].next_rune
    /\ Burn([player |-> [NewPlayer EXCEPT !.health = 10, !.next_rune = 10],
             raised |-> "EmptyDeckError"]).health = 10

\* A Pass after turn 50 has started the turn of a player whose health was
\* above next_rune: the health is now what next_rune was.
BurnedToRune ==
    /\ before.phase = BATTLE
    /\ last_action.type = A_PASS
    /\ turn > 50
    /\ before.players[current].health > before.players[current].next_rune
    /\ players[current].health = before.players[current].next_rune

\* C20: if both players pass every turn from the start of the Battle phase,
\* the game reaches the phase Ended with a winner set after finitely many act
\* calls: it does not go on past the turn safety cap.
AllPassGameEnds == (phase = BATTLE) ~> (phase = ENDED /\ winner \in {FIRST, SECOND})

\* The game of passes has ended after turn 50, by a Pass, with no card ever
\* played.
PassGameOver ==
    /\ before.phase = BATTLE
    /\ last_action.type = A_PASS
    /\ phase = ENDED
    /\ winner # None
    /\ turn > 50
    /\ \A p \in {FIRST, SECOND} : \A l \in Lanes : players[p].lanes[l] = <<>>

\* C21: for a reachable state, cloning it and applying the same action to
\* the original and to the clone yields the same serialized text: stated of
\* every accepted act call, with the clone taken of the state the call found.
\* (The act that ends the draft shuffles the decks and is left to the claims
\* about the battle setup.)
CloneRoundTrip ==
    (/\ last_action.type # "none"
     /\ last_action.raised = "none"
     /\ ~(before.phase = DRAFT /\ phase # DRAFT)) =>
        StrAfter(act_unset(clone(before),
                           Action(last_action.type, last_action.origin,
                                  last_action.target), NoRng))
            = Str(Self)

ActAfterEndRejected ==
    (before.phase = ENDED /\ last_action.type # "none") =>
        last_action.raised = "GameIsEndedError"

\* C24: after an accepted attack by a creature with Drain the attacking
\* player's health is higher by exactly the damage the attacker dealt: its
\* attack when it hit the player or a defender without Ward, 0 when the
\* defender's Ward absorbed the hit, whether or not the attacker had Ward.
DrainHealsDamageDealt ==
    (/\ before.phase = BATTLE
     /\ last_action.type = A_ATTACK
     /\ last_action.raised = "none") =>
        LET me == before.current
            foe == Opposing(before.current)
            l == LaneOf(before, before.current,
                        [instance_id |-> last_action.origin])
            a == before.players[me].lanes[l][
                    IndexOf(before.players[me].lanes[l], last_action.origin)]
            d == before.players[foe].lanes[l][
                    IndexOf(before.players[foe].lanes[l], last_action.target)]
        IN  "D" \in a.keywords =>
                players[me].health - before.players[me].health
                    = IF last_action.target = None THEN a.attack
                      ELSE IF "W" \in d.keywords THEN 0
                      ELSE a.attack

\* C25: when a creature with Breakthrough attacks a defender without Ward
\* and its attack exceeds the defender's defense before the hit, the opposing
\* player takes exactly the excess, whether or not the attacker had Ward;
\* with no excess, or when the defender's Ward absorbed the hit, the opposing
\* player takes no damage.
BreakthroughDealsExcess ==
    (/\ before.phase = BATTLE
     /\ last_action.type = A_ATTACK
     /\ last_action.raised = "none"
     /\ last_action.target # None) =>
        LET me == before.current
            foe == Opposing(before.current)
            l == LaneOf(before, before.current,
                        [instance_id |-> last_action.origin])
            a == before.players[me].lanes[l][
                    IndexOf(before.players[me].lanes[l], last_action.origin)]
            d == before.players[foe].lanes[l][
                    IndexOf(before.players[foe].lanes[l], last_action.target)]
        IN  "B" \in a.keywords =>
                before.players[foe].health - players[foe].health
                    = IF "W" \notin d.keywords /\ a.attack > d.defense
                      THEN a.attack - d.defense
                      ELSE 0

\* C26: creature combat is a simultaneous exchange.  In every accepted
\* attack on a creature the defender takes a hit of the attacker's attack and
\* the attacker a hit of the attack the defender had before the combat, also
\* when the defender dies.  A hit of positive damage on a creature without
\* Ward takes the damage off its defense, and removes it from the board when
\* the source has Lethal, whatever defense is left, or when the defense is
\* <= 0; a hit of 0 damage leaves the creature on the board with its defense
\* and its keywords, Ward included (stated also of Creature.damage with
\* amount 0 for every creature on the board).
SimultaneousExchange ==
    /\ \A j \in 1..Len(Board(Self)) : \A lethal \in BOOLEAN :
            CreatureDamage(Board(Self)[j], 0, lethal)
                = [creature |-> Board(Self)[j], dealt |-> 0, ward |-> FALSE]
    /\ (/\ before.phase = BATTLE
        /\ last_action.type = A_ATTACK
        /\ last_action.raised = "none"
        /\ last_action.target # None) =>
        LET me == before.current
            foe == Opposing(before.current)
            l == LaneOf(before, before.current,
                        [instance_id |-> last_action.origin])
            a == before.players[me].lanes[l][
                    IndexOf(before.players[me].lanes[l], last_action.origin)]
            d == before.players[foe].lanes[l][
                    IndexOf(before.players[foe].lanes[l], last_action.target)]
            Took(c, amount, lethal, lane) ==
                IF amount <= 0
                THEN /\ IndexOf(lane, c.instance_id) > 0
                     /\ lane[IndexOf(lane, c.instance_id)].defense = c.defense
                     /\ lane[IndexOf(lane, c.instance_id)].keywords = c.keywords
                ELSE IF "W" \in c.keywords THEN TRUE
                ELSE IF lethal \/ c.defense - amount <= 0
                THEN IndexOf(lane, c.instance_id) = 0
                ELSE /\ IndexOf(lane, c.instance_id) > 0
                     /\ lane[IndexOf(lane, c.instance_id)].defense
                            = c.defense - amount
        IN  /\ Took(d, a.attack, "L" \in a.keywords, players[foe].lanes[l])
            /\ Took(a, d.attack, "L" \in d.keywords, players[me].lanes[l])

\* An attack was accepted in which the defender, without Ward, died of the
\* hit and the attacker, without Ward, died of the defender's hit.
BothDied ==
    /\ before.phase = BATTLE
    /\ last_action.type = A_ATTACK
    /\ last_action.raised = "none"
    /\ last_action.target # None
    /\ \E l \in Lanes :
        /\ \E j \in 1..Len(before.players[before.current].lanes[l]) :
            /\ before.players[before.current].lanes[l][j].instance_id
                    = last_action.origin
            /\ "W" \notin before.players[before.current].lanes[l][j].keywords
        /\ \E k \in 1..Len(before.players[Opposing(before.current)].lanes[l]) :
            /\ before.players[Opposing(before.current)].lanes[l][k].instance_id
                    = last_action.target
            /\ "W" \notin before.players[Opposing(before.current)].lanes[l][k].keywords
            /\ before.players[Opposing(before.current)].lanes[l][k].attack > 0
    /\ IndexOf(Board(Self), last_action.origin) = 0
    /\ IndexOf(Board(Self), last_action.target) = 0

\* C27: the health changes of a summoned card go through the rune rule: when
\* an accepted summon takes the opposing player's health (or the summoning
\* player's) from above next_rune to next_rune or below, next_rune is lower
\* by 5 for each step crossed and bonus_draw higher by the number of steps,
\* as Player.damage leaves them for the same loss of health.
SummonDeltaCrossesRune ==
    (/\ before.phase = BATTLE
     /\ last_action.type = A_SUMMON
     /\ last_action.raised = "none") =>
        LET me == before.current
            foe == Opposing(before.current)
            card == before.players[me].hand[
                        IndexOf(before.players[me].hand, last_action.origin)]
        IN  /\ (/\ before.players[foe].health > before.players[foe].next_rune
                /\ players[foe].health <= before.players[foe].next_rune) =>
                    /\ players[foe].next_rune
                        = PlayerDamage(before.players[foe], -card.enemy_hp).next_rune
                    /\ players[foe].bonus_draw
                        = PlayerDamage(before.players[foe], -card.enemy_hp).bonus_draw
            /\ (/\ before.players[me].health > before.players[me].next_rune
                /\ players[me].health <= before.players[me].next_rune) =>
                    /\ players[me].next_rune
                        = PlayerDamage(before.players[me], -card.player_hp).next_rune
                    /\ players[me].bonus_draw
                        = PlayerDamage(before.players[me], -card.player_hp).bonus_draw
                          + card.card_draw

\* C28: in every Battle state, of a creature of the current player that was
\* summoned in this turn (the player's log holds its Summon after the last
\* Pass): without Charge no attack by it is listed by available_actions or
\* accepted by act, whatever the target; with Charge, and no attack by it in
\* this turn, an attack by it is listed and accepted.  A creature summoned
\* in an earlier turn that has not attacked in this turn can attack: the
\* start of its controller's turn woke it.
FreshCreatureNeedsCharge ==
    phase = BATTLE =>
        \A l \in Lanes : \A j \in 1..Len(players[current].lanes[l]) :
            LET c == players[current].lanes[l][j]
                log == LastActions(players[current].actions)
                summoned == \E k \in 1..Len(log) :
                                /\ log[k].type = A_SUMMON
                                /\ log[k].origin = c.instance_id
                attacked == \E k \in 1..Len(log) :
                                /\ log[k].type = A_ATTACK
                                /\ log[k].origin = c.instance_id
                targets == NamedIds(players[current], players[Opposing(current)])
                           \cup {None}
                listed == {t \in targets :
                            Action(A_ATTACK, c.instance_id, t)
                                \in available_actions(Self)}
                accepted == {t \in targets :
                                Resolve(Self, Action(A_ATTACK, c.instance_id, t)).raised
                                    = "none"}
            IN  /\ (summoned /\ "C" \notin c.keywords) =>
                        (listed = {} /\ accepted = {})
                /\ (summoned /\ "C" \in c.keywords /\ ~attacked) =>
                        (listed # {} /\ accepted # {})
                /\ (~summoned /\ ~attacked) => (listed # {} /\ accepted # {})

\* act rejected an attack while every creature of the current player was one
\* without Charge summoned in this turn.
FreshAttackRejected ==
    /\ before.phase = BATTLE
    /\ last_action.type = A_ATTACK
    /\ was_last_action_invalid
    /\ \E l \in Lanes : Len(players[current].lanes[l]) > 0
    /\ \A l \in Lanes : \A j \in 1..Len(players[current].lanes[l]) :
        /\ "C" \notin players[current].lanes[l][j].keywords
        /\ \E k \in 1..Len(LastActions(players[current].actions)) :
            /\ LastActions(players[current].actions)[k].type = A_SUMMON
            /\ LastActions(players[current].actions)[k].origin
                    = players[current].lanes[l][j].instance_id

\* C29, as stated: the affordability check is shared by all card actions.
\* In every Battle state a Summon, an Attack or a Use whose acting card, a
\* card of the current player's hand or a creature on the board, costs more
\* than the current player's mana fails: act sets was_last_action_invalid
\* and leaves the players, the phase, the turn, the current player and the
\* winner as they were.
UnaffordableCardActionFails ==
    phase = BATTLE =>
        \A id \in Kinds(players[current].hand) \cup Ids(Board(Self)) :
            find_card(Self, id).cost > players[current].mana =>
                \A action \in
                    {Action(A_SUMMON, id, l) : l \in Lanes}
                    \cup {Action(type, id, t) :
                            type \in {A_USE, A_ATTACK},
                            t \in Ids(Board(Self)) \cup {None}} :
                    \E r \in {act(Self, action, NoRng)} :
                        /\ r.was_last_action_invalid
                        /\ r.players = players
                        /\ r.phase = phase
                        /\ r.turn = turn
                        /\ r.current = current
                        /\ r.winner = winner

\* C29, amended: the affordability check is made for Summon and Use.  In
\* every Battle state a Summon or a Use whose acting card, a card of the
\* current player's hand or a creature on the board, costs more than the
\* current player's mana fails: act sets was_last_action_invalid and leaves
\* the players, the phase, the turn, the current player and the winner as
\* they were.  An Attack is not subject to the check: an attack that
\* available_actions lists is accepted also when the attacking creature
\* costs more than the player's mana.
UnaffordableSummonOrUseFails ==
    phase = BATTLE =>
        /\ \A id \in Kinds(players[current].hand) \cup Ids(Board(Self)) :
            find_card(Self, id).cost > players[current].mana =>
                \A action \in
                    {Action(A_SUMMON, id, l) : l \in Lanes}
                    \cup {Action(A_USE, id, t) :
                            t \in Ids(Board(Self)) \cup {None}} :
                    \E r \in {act(Self, action, NoRng)} :
                        /\ r.was_last_action_invalid
                        /\ r.players = players
                        /\ r.phase = phase
                        /\ r.turn = turn
                        /\ r.current = current
                        /\ r.winner = winner
        /\ \A action \in available_actions(Self) :
            (/\ action.type = A_ATTACK
             /\ find_card(Self, action.origin).cost > players[current].mana) =>
                ~act(Self, action, NoRng).was_last_action_invalid

\* act rejected, with NotEnoughManaError, a Summon of a card that costs more
\* than the player's mana, and the players are as they were.
UnaffordableSummonRejected ==
    /\ before.phase = BATTLE
    /\ last_action.type = A_SUMMON
    /\ last_action.raised = "NotEnoughManaError"
    /\ was_last_action_invalid
    /\ players = before.players

\* C30: whenever the health check that ends an act on a battle action ends
\* the game, exactly one player is at health <= 0 at that check and the
\* winner is the other player, whose health is > 0.  (A Pass changes no
\* health before the check; any other action is not followed by a turn
\* start, so the healths at the check are those the act call leaves.)
OneDeadAtHealthCheck ==
    (before.phase = BATTLE /\ phase = ENDED) =>
        \E at \in {IF last_action.type = A_PASS
                   THEN act_on_battle(Reset(before), Pass).players
                   ELSE players} :
            /\ winner \in {FIRST, SECOND}
            /\ at[winner].health > 0
            /\ at[Opposing(winner)].health <= 0

\* C31: at a turn start before the turn safety limit (turn <= 50), the draw
\* of a player whose hand already holds 8 cards is skipped with no other
\* effect: hand, deck, health and next_rune are as before the turn start,
\* also when the deck is empty.
FullHandDrawHasNoEffect ==
    (before.phase = BATTLE /\ current # before.current /\ turn <= TurnLimit
     /\ Len(before.players[current].hand) = MaxHand) =>
        /\ players[current].hand = before.players[current].hand
        /\ players[current].deck = before.players[current].deck
        /\ players[current].health = before.players[current].health
        /\ players[current].next_rune = before.players[current].next_rune

\* C31, amended: the draw of a full hand is skipped with no other effect
\* when the deck holds a card; when the deck is empty the draw finds the
\* empty deck first and the deck-out burn is applied: the health becomes the
\* rune threshold and the threshold takes its step down.
FullHandDrawSkippedUnlessDeckEmpty ==
    (before.phase = BATTLE /\ current # before.current /\ turn <= TurnLimit
     /\ Len(before.players[current].hand) = MaxHand) =>
        /\ players[current].hand = before.players[current].hand
        /\ players[current].deck = before.players[current].deck
        /\ Len(before.players[current].deck) > 0 =>
            /\ players[current].health = before.players[current].health
            /\ players[current].next_rune = before.players[current].next_rune
        /\ Len(before.players[current].deck) = 0 =>
            /\ players[current].health = before.players[current].next_rune
            /\ players[current].next_rune
                = IF before.players[current].next_rune > 0
                  THEN before.players[current].next_rune - RuneStep ELSE 0

\* A turn start before the turn limit found a full hand and a deck with
\* cards, and drew nothing.
FullHandDrawSkipped ==
    /\ before.phase = BATTLE
    /\ current # before.current
    /\ turn <= TurnLimit
    /\ Len(before.players[current].hand) = MaxHand
    /\ Len(before.players[current].deck) > 0
    /\ players[current].last_drawn = 0
    /\ players[current].deck = before.players[current].deck

\* C32: at the start of a player's battle turn bonus_mana becomes 0 if the
\* player's mana is exactly 0 and base_mana > 0, and is unchanged otherwise;
\* base_mana becomes min(12, base_mana + 1); mana becomes base_mana +
\* bonus_mana.  Consequently no player's mana exceeds 13, and a bonus_mana
\* that is 0 in the battle stays 0.
ManaRefilledAtTurnStart ==
    /\ (before.phase = BATTLE /\ current # before.current) =>
        /\ players[current].bonus_mana
            = IF before.players[current].mana = 0
                 /\ before.players[current].base_mana > 0
              THEN 0 ELSE before.players[current].bonus_mana
        /\ players[current].base_mana
            = IF before.players[current].base_mana + 1 < MaxBaseMana
              THEN before.players[current].base_mana + 1 ELSE MaxBaseMana
        /\ players[current].mana
            = players[current].base_mana + players[current].bonus_mana
    /\ (before.phase = DRAFT /\ phase = BATTLE) =>
        /\ players[current].base_mana = 1
        /\ players[current].mana
            = players[current].base_mana + players[current].bonus_mana
    /\ \A p \in {FIRST, SECOND} :
        /\ players[p].mana <= MaxBaseMana + 1
        /\ (before.phase # DRAFT /\ before.players[p].bonus_mana = 0) =>
            players[p].bonus_mana = 0

\* A turn start took the bonus mana of a player who had spent all its mana.
BonusManaReset ==
    /\ before.phase = BATTLE
    /\ current # before.current
    /\ before.players[current].bonus_mana = 1
    /\ before.players[current].mana = 0
    /\ before.players[current].base_mana > 0
    /\ players[current].bonus_mana = 0
    /\ players[current].mana = players[current].base_mana

\* C33: at every battle turn start with the turn counter above 50 the
\* player's deck is empty afterwards, the player draws no card, and the
\* deck-out burn is applied (the health becomes the rune threshold held
\* before, and the threshold takes its step down), whatever the deck held
\* before.
TurnCapEmptiesDeck ==
    (before.phase = BATTLE /\ current # before.current /\ turn > TurnLimit) =>
        /\ players[current].deck = <<>>
        /\ players[current].hand = before.players[current].hand
        /\ players[current].last_drawn = 0
        /\ players[current].health = before.players[current].next_rune
        /\ players[current].next_rune
            = IF before.players[current].next_rune > 0
              THEN before.players[current].next_rune - RuneStep
              ELSE before.players[current].next_rune

\* The first turn start above the turn limit emptied a deck that held cards
\* and burnt a player whose hand had room for a card.
DeckDroppedAtTurnCap ==
    /\ before.phase = BATTLE
    /\ current # before.current
    /\ turn > TurnLimit
    /\ Len(before.players[current].deck) > 0
    /\ Len(before.players[current].hand) < MaxHand
    /\ players[current].deck = <<>>
    /\ players[current].health < before.players[current].health

\* C34: the rune loop stops at exactly 0: next_rune is always one of 25, 20,
\* 15, 10, 5, 0 and never negative, so the steps a player's threshold has
\* taken, each of them one increment of bonus_draw, are at most 5 in a game,
\* and damage taken while the threshold is 0 takes no step and grants no
\* bonus draw.
RuneStopsAtZero ==
    \A p \in {FIRST, SECOND} :
        /\ players[p].next_rune \in {InitialRune - k * RuneStep : k \in 0..5}
        /\ players[p].next_rune >= 0
        /\ \A amount \in {1, RuneStep, InitialHealth, MaxHit} :
            \E q \in {PlayerDamage(players[p], amount)} :
                /\ q.next_rune \in {InitialRune - k * RuneStep : k \in 0..5}
                /\ (q.bonus_draw - players[p].bonus_draw) * RuneStep
                    = players[p].next_rune - q.next_rune
                /\ players[p].next_rune = 0 =>
                    q.bonus_draw = players[p].bonus_draw
        /\ (before.phase = BATTLE /\ before.players[p].next_rune = 0) =>
            /\ players[p].next_rune = 0
            /\ (last_action.type = A_ATTACK /\ p # before.current) =>
                players[p].bonus_draw = before.players[p].bonus_draw

\* An attack hit a player whose threshold was 0: the health went down and
\* no bonus draw was granted.
HitAtThresholdZero ==
    \E p \in {FIRST, SECOND} :
        /\ before.phase = BATTLE
        /\ last_action.type = A_ATTACK
        /\ last_action.raised = "none"
        /\ before.players[p].next_rune = 0
        /\ players[p].health < before.players[p].health
        /\ players[p].next_rune = 0
        /\ players[p].bonus_draw = before.players[p].bonus_draw

\* C35: once the phase is Ended, every further act call leaves phase,
\* winner, turn counter, current player and both players (health, mana,
\* rune threshold, bonus draw, hands, decks, lanes and action logs)
\* unchanged.
ActOnEndedChangesNothing ==
    before.phase = ENDED =>
        /\ phase = before.phase
        /\ winner = before.winner
        /\ turn = before.turn
        /\ current = before.current
        /\ players = before.players

\* A Pass was given to a game that had ended: the turn did not pass.
PassOnEndedIgnored ==
    /\ before.phase = ENDED
    /\ last_action.type = A_PASS
    /\ current = before.current
    /\ turn = before.turn
    /\ players[current].actions = before.players[current].actions

\* C36: between two consecutive turn starts of its controller a creature
\* makes at most one successful attack.  After an accepted attack the
\* attacker, if it is still on the board, has has_attacked_this_turn set; a
\* creature with the flag set is not able to attack, also when it has Charge
\* or is given Charge by a green item, no attack by it is listed, and every
\* attack by it is rejected and changes nothing; the flag of a creature that
\* stays on the board is cleared only by the turn start of its controller.
OneAttackPerTurn ==
    /\ (before.phase = BATTLE /\ last_action.type = A_ATTACK
        /\ last_action.raised = "none") =>
        \A c \in {Board(Self)[j] : j \in 1..Len(Board(Self))} :
            c.instance_id = last_action.origin => c.has_attacked_this_turn
    /\ phase = BATTLE =>
        \A l \in Lanes : \A j \in 1..Len(players[current].lanes[l]) :
            \E c \in {players[current].lanes[l][j]} :
                c.has_attacked_this_turn =>
                    /\ ~able_to_attack([c EXCEPT !.keywords = @ \cup {"C"}])
                    /\ ~able_to_attack(GreenEffect(c, Catalog[12]))
                    /\ \A t \in Ids(players[Opposing(current)].lanes[l]) \cup {None} :
                        /\ Action(A_ATTACK, c.instance_id, t)
                                \notin available_actions(Self)
                        /\ \E r \in {act(Self, Action(A_ATTACK, c.instance_id, t), NoRng)} :
                            /\ r.was_last_action_invalid
                            /\ r.players = players
    /\ \A p \in {FIRST, SECOND} : \A l \in Lanes :
        \A j \in 1..Len(before.players[p].lanes[l]) :
            \A k \in 1..Len(players[p].lanes[l]) :
                (/\ before.phase = BATTLE
                 /\ players[p].lanes[l][k].instance_id
                        = before.players[p].lanes[l][j].instance_id
                 /\ before.players[p].lanes[l][j].has_attacked_this_turn
                 /\ ~players[p].lanes[l][k].has_attacked_this_turn) =>
                    (current = p /\ before.current # p)

\* A creature with Charge attacked in the turn it was summoned: it is on the
\* board of the player to move with the flag set.
ChargeCreatureHasAttacked ==
    /\ before.phase = BATTLE
    /\ phase = BATTLE
    /\ last_action.type = A_ATTACK
    /\ last_action.raised = "none"
    /\ \E l \in Lanes : \E j \in 1..Len(players[current].lanes[l]) :
        /\ players[current].lanes[l][j].instance_id = last_action.origin
        /\ players[current].lanes[l][j].has_attacked_this_turn
        /\ ~players[current].lanes[l][j].can_attack
        /\ has_ability(players[current].lanes[l][j], "C")

\* C37: after every act in Battle no lane contains a creature flagged dead,
\* every lane contains only creature cards, and a card instance is in no
\* deck, hand or lane of the player who did not draft it: the instances of
\* a player are those the battle's setup made of its deck (the odd ids for
\* First, the even ids for Second), and a container of a player holds no
\* instance that the player's containers did not hold before the act.
BoardHygieneAndOwnership ==
    before.phase = BATTLE =>
        \A p \in {FIRST, SECOND} :
            /\ \A l \in Lanes : \A j \in 1..Len(players[p].lanes[l]) :
                /\ ~players[p].lanes[l][j].is_dead
                /\ players[p].lanes[l][j].type = Creature
            /\ \A i \in Ids(players[p].deck) \cup Ids(players[p].hand)
                        \cup Ids(players[p].lanes[LEFT])
                        \cup Ids(players[p].lanes[RIGHT]) :
                /\ (i - 1) % 2 = p
                /\ i \in Ids(before.players[p].deck)
                        \cup Ids(before.players[p].hand)
                        \cup Ids(before.players[p].lanes[LEFT])
                        \cup Ids(before.players[p].lanes[RIGHT])

\* An item killed a creature of the opposing player: the creature is in no
\* lane after the act.
ItemKillSwept ==
    /\ before.phase = BATTLE
    /\ last_action.type = A_USE
    /\ last_action.raised = "none"
    /\ last_action.target
        \in Ids(before.players[Opposing(before.current)].lanes[LEFT])
            \cup Ids(before.players[Opposing(before.current)].lanes[RIGHT])
    /\ last_action.target \notin Ids(Board(Self))

====
